---------------------------- MODULE Spec2Model ----------------------------
(***************************************************************************)
(* Model of the YouTube channel analyzer (scripts/analyzer.py and          *)
(* scripts/step2_collect_youtube_data.py): the API-key quota ledger        *)
(* (YouTubeAPIKeyManager), the merge of the RSS and playlist video ids,    *)
(* the retry decorator and the row loop of main().                         *)
(***************************************************************************)
EXTENDS Integers, Sequences, FiniteSets, TLC

VARIABLES
    api_sheet,      \* data rows of the API key tab: all_values[3:]
    api_keys,       \* YouTubeAPIKeyManager.api_keys, in load order
    quota_status,   \* YouTubeAPIKeyManager.quota_status, keyed by key name
    loaded,         \* history: quota_status as it was right after the load
    debited,        \* history: units passed to update_quota_used per key name
    op,             \* the last manager call made: [name, row, req]
    ret,            \* what the last get_key_for_row call returned or raised
    ncalls,         \* number of manager calls made since the load
    retry_pc,       \* retry_with_backoff.wrapper: "call", "sleep" or "done"
    attempt,        \* the loop variable of the wrapper
    func_calls,     \* history: the outcome of each invocation of func
    sleeps,         \* history: the wait_time of each time.sleep of the wrapper
    retry_result,   \* what the wrapper returned or raised
    rss_videos,     \* video_id of each entry parse_rss_feed returned (0: None)
    bulk_items,     \* video ids the bulk listing returned, in its order
    is_shorts_only, \* the uploads playlist answered 404
    api_videos,     \* the bulk ids handed to the merge
    all_video_ids,  \* the merged list
    merge_pc,       \* "input", or the function that merged: "hybrid", "step2"
    videos_response, \* the items of the videos listing: [id, viewCount] each
    views_list,     \* the view counts the top-N sums are taken over
    views,          \* result: [views_5, views_10, views_20, views_30]
    now,            \* datetime.now(timezone.utc) of the collection, in ticks
    channel_created, \* snippet.publishedAt of the channel, in ticks (0: '')
    day_lists,      \* views_5d_list, views_10d_list, views_15d_list
    result,         \* result: the day sums and counts, the upload dates, operation_days
    shorts_feed,    \* what the activities listing and the duration listing answer
    all_sheet_data, \* main(): worksheet.get_all_values(), read once before the loop
    data_dict,      \* what get_channel_data_hybrid returned for the row, by column
    manual_values,  \* what preserve_manual_columns_batch returned for the row
    cell_list,      \* the cells handed to update_cells for the row
    hot_data,       \* transfer: the value of the channel id column of each hot-data record
    data_all,       \* transfer: the channel_id column of the data tab, header first
    transfer_log,   \* history: new_rows of each run of the transfer, and how its append ended
    scenario,       \* the allocation run: [pc, entity, nkeys, total, units]
    pc,             \* main(): where the run is
    start_row,      \* main(): first row of the range
    end_row,        \* main(): last row of the range
    row_num,        \* main(): the loop variable
    row_data,       \* main(): the row read for row_num: [url, handle, channel_id]
    cur_key,        \* key_name of the caller: the key its remote calls are billed to
    success_count,  \* main(): rows collected
    fail_count,     \* main(): rows that failed
    batch_cells,    \* main(): the pending cells, as the number of rows they belong to
    batch_rows_count, \* main(): rows added to batch_cells since the last write
    written,        \* history: rows whose cells an update_cells call has written
    last_write,     \* history: the last update_cells(batch_cells) call: [rows, at, ok]
    visited,        \* history: the values row_num has taken in the loop body
    range_input,    \* the RANGE environment variable, as its characters
    total_rows,     \* len(all_values): the rows of the data tab, header included
    processed,      \* history: the rows whose row_data the loop body has read
    first_api_key,  \* process_step1: api_key, the first API key, "" for None
    channel_ids_data, \* process_step1: the rows whose channel_id was extracted
    existing_count, \* process_step1: rows skipped for the channel_id they have
    failed_count    \* process_step1: rows whose channel_id was not found

ledgerVars == <<api_sheet, api_keys, quota_status, loaded, debited>>
callVars == <<op, ret, ncalls>>
retryVars == <<retry_pc, attempt, func_calls, sleeps, retry_result>>
transferVars == <<hot_data, data_all, transfer_log>>
sinkVars == <<all_sheet_data, data_dict, manual_values, cell_list, transferVars>>
viewsVars == <<videos_response, views_list, views, now, channel_created, day_lists, result,
               shorts_feed, sinkVars>>
mergeVars == <<rss_videos, bulk_items, is_shorts_only, api_videos, all_video_ids, merge_pc,
               viewsVars>>
vars == <<api_sheet, api_keys, quota_status, loaded, debited, op, ret, ncalls,
          retry_pc, attempt, func_calls, sleeps, retry_result,
          rss_videos, bulk_items, is_shorts_only, api_videos, all_video_ids, merge_pc,
          videos_response, views_list, views, now, channel_created, day_lists, result,
          shorts_feed, all_sheet_data, data_dict, manual_values, cell_list,
          hot_data, data_all, transfer_log,
          scenario, pc, start_row, end_row, row_num, row_data, cur_key,
          success_count, fail_count,
          batch_cells, batch_rows_count, written, last_write, visited,
          range_input, total_rows, processed, first_api_key, channel_ids_data,
          existing_count, failed_count>>
batchVars == <<batch_cells, batch_rows_count, written, last_write, visited>>
step1Vars == <<range_input, total_rows, processed, first_api_key, channel_ids_data,
               existing_count, failed_count>>
mainVars == <<pc, start_row, end_row, row_num, row_data, cur_key, success_count, fail_count,
              batch_cells, batch_rows_count, written, last_write, visited,
              range_input, total_rows, processed, first_api_key, channel_ids_data,
              existing_count, failed_count>>

-----------------------------------------------------------------------------
(* Bounds of the model *)

MaxKeyRows == 3     \* data rows in the API key tab
MaxCalls == 2       \* manager calls explored after a load

TicksPerSecond == 2 \* resolution of the wait times: random.uniform(0, 1) is
                    \* one of 0, 1/TicksPerSecond, ..., 1

MaxRows == 2        \* rows in the range main() walks
MaxMainKeyRows == 2 \* data rows in the API key tab of a run of main()
MaxLoopRows == 22   \* rows in the range of a run of main() that batches its writes
MaxSheetRows == 4   \* rows of the data tab, header included, where RANGE is parsed
MaxShift == 1       \* how far a listing may start behind the newest upload
MaxSmall == 2       \* length of the listings enumerated entry by entry
MaxViews == 1       \* the largest viewCount of a video
MaxHot == 3         \* records of the hot-data tab
MaxRuns == 2        \* runs of the transfer, one after the other
MaxDayItems == 3    \* videos in a listing whose dates are enumerated
TicksPerDay == 2    \* instants told apart within a day

(* Program constants *)

RSS_MAX_VIDEOS == 15
PLAYLIST_MAX_RESULTS == 30
API_SLICE_FROM == 15
MAX_VIDEO_IDS == 30

MAX_RETRIES == 3
RETRY_DELAY == 2
RATE_LIMIT_WAIT == 60

BATCH_SIZE == 20

DEFAULT_TOTAL_QUOTA == 10000
ROW_OFFSET == 4
FIRST_KEY_ROW == 4

-----------------------------------------------------------------------------
(* The API key tab.  A cell is a string; the cells of interest are the key *)
(* name, the key, the activation flag, the total quota and the used quota. *)

NumericCells == {"0", "2", "3", "10", "111"}

\* int(cell) for the numeric cells of the model
IntOf(cell) ==
    CASE cell = "0" -> 0
      [] cell = "2" -> 2
      [] cell = "3" -> 3
      [] cell = "10" -> 10
      [] cell = "111" -> 111

\* str.strip()
Strip(cell) == IF cell = " " THEN "" ELSE cell

\* str.upper() on the activation cells of the model
Upper(cell) ==
    CASE cell = "true" -> "TRUE"
      [] cell = "o" -> "O"
      [] OTHER -> cell

ACTIVE_WORDS == {"TRUE", "YES", "Y", "O"}

KeyRow(name, key, active, quota, used) ==
    [name |-> name, key |-> key, active |-> active, quota |-> quota, used |-> used]

\* The rows a sheet of the model is made of.
SheetRows ==
    { KeyRow("k1", "K1", "TRUE", "111", "0"),    \* 111 units left
      KeyRow("k2", "K2", "true", "111", "2"),    \* 109 units left
      KeyRow("k3", "K3", "o", "2", "3"),         \* more used than granted
      KeyRow("k1", "K9", "TRUE", "", "x"),       \* blank quota, unparsable usage
      KeyRow(" ", "K4", "TRUE", "111", "0"),     \* no name
      KeyRow("k2", "K2", "FALSE", "111", "0") }  \* not active

RECURSIVE SeqsUpTo(_, _)
SeqsUpTo(S, n) ==
    IF n = 0 THEN {<<>>}
    ELSE LET shorter == SeqsUpTo(S, n - 1)
         IN shorter \cup {Append(s, x) : s \in {t \in shorter : Len(t) = n - 1}, x \in S}

Sheets == SeqsUpTo(SheetRows, MaxKeyRows)

-----------------------------------------------------------------------------
(* YouTubeAPIKeyManager.load_keys_from_sheet *)

\* total_quota and used_quota of a row: the try/except around the two int()
parse_quota(row) ==
    LET quota_ok == row.quota = "" \/ row.quota \in NumericCells
        used_ok == row.used = "" \/ row.used \in NumericCells
    IN IF quota_ok /\ used_ok
       THEN [total |-> IF row.quota # "" THEN IntOf(row.quota) ELSE DEFAULT_TOTAL_QUOTA,
             used |-> IF row.used # "" THEN IntOf(row.used) ELSE 0]
       ELSE [total |-> DEFAULT_TOTAL_QUOTA, used |-> 0]

is_active(active) == Upper(active) \in ACTIVE_WORDS

new_status(q) ==
    [total |-> q.total, used |-> q.used, remaining |-> q.total - q.used,
     errors |-> 0, session_used |-> 0]

RECURSIVE load_rows(_, _, _)
load_rows(rows, i, acc) ==
    IF i > Len(rows) THEN acc
    ELSE LET row == rows[i]
             key_name == Strip(row.name)
             api_key == Strip(row.key)
         IN IF key_name = "" \/ api_key = "" \/ ~is_active(row.active)
            THEN load_rows(rows, i + 1, acc)
            ELSE load_rows(rows, i + 1,
                   [api_keys |-> Append(acc.api_keys,
                                        [name |-> key_name, row |-> i + FIRST_KEY_ROW - 1]),
                    quota_status |->
                        [n \in DOMAIN acc.quota_status \cup {key_name} |->
                            IF n = key_name THEN new_status(parse_quota(row))
                            ELSE acc.quota_status[n]]])

load_keys_from_sheet(rows) ==
    load_rows(rows, 1, [api_keys |-> <<>>, quota_status |-> <<>>])

-----------------------------------------------------------------------------
(* YouTubeAPIKeyManager.get_key_for_row                                    *)
(* The result is the index (from 0) of the api_keys entry returned, or the *)
(* exception raised.                                                       *)

KeyResult(i) == [kind |-> "key", idx |-> i, name |-> api_keys[i + 1].name, err |-> ""]
ErrorResult(e) == [kind |-> "error", idx |-> -1, name |-> "", err |-> e]
NoResult == [kind |-> "none", idx |-> -1, name |-> "", err |-> ""]

remaining_of(i) == quota_status[api_keys[i + 1].name].remaining

\* Variants of the backup scan with a slip in them: a strict comparison, and
\* a scan from the last key down.
RECURSIVE backup_scan_strict(_, _)
backup_scan_strict(i, required_quota) ==
    IF i >= Len(api_keys) THEN ErrorResult("quota")
    ELSE IF remaining_of(i) > required_quota THEN KeyResult(i)
    ELSE backup_scan_strict(i + 1, required_quota)

RECURSIVE scan_down(_, _)
scan_down(i, required_quota) ==
    IF i < 0 THEN ErrorResult("quota")
    ELSE IF remaining_of(i) >= required_quota THEN KeyResult(i)
    ELSE scan_down(i - 1, required_quota)

backup_scan_from_last(i, required_quota) == scan_down(Len(api_keys) - 1, required_quota)

RECURSIVE backup_scan(_, _)
backup_scan(i, required_quota) ==
    IF i >= Len(api_keys) THEN ErrorResult("quota")
    ELSE IF remaining_of(i) >= required_quota THEN KeyResult(i)
    ELSE backup_scan(i + 1, required_quota)

\* Variants of get_key_for_row with a slip in them: the primary returned
\* without looking at its quota, and the primary index taken without the offset.
get_key_for_row_unchecked(row_number, required_quota) ==
    IF Len(api_keys) = 0 THEN ErrorResult("no_keys")
    ELSE KeyResult((row_number - ROW_OFFSET) % Len(api_keys))

get_key_for_row_no_offset(row_number, required_quota) ==
    IF Len(api_keys) = 0 THEN ErrorResult("no_keys")
    ELSE LET key_idx == row_number % Len(api_keys)
         IN IF remaining_of(key_idx) >= required_quota
            THEN KeyResult(key_idx)
            ELSE backup_scan(0, required_quota)

get_key_for_row(row_number, required_quota) ==
    IF Len(api_keys) = 0 THEN ErrorResult("no_keys")
    ELSE LET key_idx == (row_number - ROW_OFFSET) % Len(api_keys)
         IN IF remaining_of(key_idx) >= required_quota
            THEN KeyResult(key_idx)
            ELSE backup_scan(0, required_quota)

(* YouTubeAPIKeyManager.update_quota_used *)

\* A variant of update_quota_used that forgets the remaining quota.
update_quota_used_keeps_remaining(key_name, units) ==
    IF key_name \in DOMAIN quota_status
    THEN [quota_status EXCEPT
            ![key_name].used = @ + units,
            ![key_name].session_used = @ + units]
    ELSE quota_status

update_quota_used(key_name, units) ==
    IF key_name \in DOMAIN quota_status
    THEN [quota_status EXCEPT
            ![key_name].used = @ + units,
            ![key_name].remaining = @ - units,
            ![key_name].session_used = @ + units]
    ELSE quota_status

-----------------------------------------------------------------------------
(* The manager on its own: a load followed by any calls.                   *)

KeyNames == {"k1", "k2", "k3"}
RowNumbers == 3 .. 6
RequiredQuotas == {1, 110}
DebitUnits == {1, 110}

LoadedFrom(rows) ==
    LET m == load_keys_from_sheet(rows)
    IN /\ api_sheet = rows
       /\ api_keys = m.api_keys
       /\ quota_status = m.quota_status
       /\ loaded = m.quota_status
       /\ debited = [n \in DOMAIN m.quota_status |-> 0]
       /\ op = [name |-> "load", row |-> 0, req |-> 0]
       /\ ret = NoResult
       /\ ncalls = 0

RetryIdle ==
    /\ retry_pc = "idle"
    /\ attempt = 0
    /\ func_calls = <<>>
    /\ sleeps = <<>>
    /\ retry_result = [kind |-> "none", value |-> "", err |-> ""]

\* result as it is initialised
NoViews == [views_5 |-> 0, views_10 |-> 0, views_20 |-> 0, views_30 |-> 0]

NoDayLists == [d5 |-> <<>>, d10 |-> <<>>, d15 |-> <<>>]

\* result as it is initialised: a date is its day number, '' is 0
ResultDefaults ==
    [views_5d |-> 0, views_10d |-> 0, views_15d |-> 0, count_5d |-> 0, count_10d |-> 0,
     first_upload |-> 0, latest_upload |-> 0, operation_days |-> 0,
     yt_category |-> "uncategorized"]

NoFeed == [activities_ok |-> TRUE, videos_ok |-> TRUE, items |-> <<>>]

ShortsIdle == shorts_feed = NoFeed

TransferIdle ==
    /\ hot_data = <<>>
    /\ data_all = <<>>
    /\ transfer_log = <<>>

SinkIdle ==
    /\ all_sheet_data = <<>>
    /\ data_dict = <<>>
    /\ manual_values = <<>>
    /\ cell_list = <<>>
    /\ TransferIdle

DaysIdle ==
    /\ ShortsIdle
    /\ SinkIdle
    /\ now = 0
    /\ channel_created = 0
    /\ day_lists = NoDayLists
    /\ result = ResultDefaults

ViewsIdle ==
    /\ videos_response = <<>>
    /\ views_list = <<>>
    /\ views = NoViews
    /\ DaysIdle

MergeIdle ==
    /\ rss_videos = <<>>
    /\ bulk_items = <<>>
    /\ is_shorts_only = FALSE
    /\ api_videos = <<>>
    /\ all_video_ids = <<>>
    /\ merge_pc = "idle"
    /\ ViewsIdle

ScenarioIdle == scenario = [pc |-> "idle", entity |-> 0, nkeys |-> 0, total |-> "", units |-> 0]

NoRow == [url |-> "", handle |-> "", channel_id |-> ""]

NoWrite == [rows |-> 0, at |-> 0, ok |-> TRUE]

BatchIdle ==
    /\ batch_cells = 0
    /\ batch_rows_count = 0
    /\ written = 0
    /\ last_write = NoWrite
    /\ visited = <<>>

Step1Idle ==
    /\ range_input = <<>>
    /\ total_rows = 0
    /\ processed = <<>>
    /\ first_api_key = ""
    /\ channel_ids_data = <<>>
    /\ existing_count = 0
    /\ failed_count = 0

MainIdle ==
    /\ BatchIdle
    /\ Step1Idle
    /\ pc = "idle"
    /\ start_row = 0
    /\ end_row = 0
    /\ row_num = 0
    /\ row_data = NoRow
    /\ cur_key = ""
    /\ success_count = 0
    /\ fail_count = 0

LedgerInit ==
    /\ \E rows \in Sheets : LoadedFrom(rows)
    /\ RetryIdle
    /\ MergeIdle
    /\ ScenarioIdle
    /\ MainIdle

RecordDebit(key_name, units) ==
    IF key_name \in DOMAIN debited
    THEN [debited EXCEPT ![key_name] = @ + units]
    ELSE debited

CallGetKey ==
    /\ ncalls < MaxCalls
    /\ \E row_number \in RowNumbers, required_quota \in RequiredQuotas :
        /\ ret' = get_key_for_row(row_number, required_quota)
        /\ op' = [name |-> "get_key", row |-> row_number, req |-> required_quota]
    /\ ncalls' = ncalls + 1
    /\ UNCHANGED <<ledgerVars, retryVars, mergeVars, scenario, mainVars>>

CallUpdateQuota ==
    /\ ncalls < MaxCalls
    /\ \E key_name \in KeyNames \cup {"other"}, units \in DebitUnits :
        /\ quota_status' = update_quota_used(key_name, units)
        /\ debited' = RecordDebit(key_name, units)
        /\ op' = [name |-> "update", row |-> 0, req |-> units]
    /\ ret' = NoResult
    /\ ncalls' = ncalls + 1
    /\ UNCHANGED <<api_sheet, api_keys, loaded, retryVars, mergeVars, scenario, mainVars>>

LedgerNext == CallGetKey \/ CallUpdateQuota

SpecLedger == LedgerInit /\ [][LedgerNext]_vars

-----------------------------------------------------------------------------
(* Properties of the manager, under SpecLedger *)

NumKeys == Len(api_keys)
KeyIndexes == 0 .. NumKeys - 1
GotKey == op.name = "get_key" /\ ret.kind = "key"
GotError == op.name = "get_key" /\ ret.kind = "error"
Sufficient(i, required_quota) == quota_status[api_keys[i + 1].name].remaining >= required_quota

\* C1: a key returned by get_key_for_row, primary or backup, has at least
\* required_quota units remaining at the moment it is returned.
C1_SufficientAtReturn ==
    GotKey => quota_status[ret.name].remaining >= op.req

\* a backup key returned after an earlier debit
C1_Witness ==
    /\ GotKey
    /\ ncalls >= 2
    /\ ret.idx # (op.row - ROW_OFFSET) % NumKeys
    /\ \E n \in DOMAIN debited : debited[n] > 0

\* C3: used = loaded used + debited units, session_used = debited units,
\* total is the loaded total and remaining = total - used, for every key.
C3_Conservation ==
    \A n \in DOMAIN quota_status :
        /\ quota_status[n].used = loaded[n].used + debited[n]
        /\ quota_status[n].session_used = debited[n]
        /\ quota_status[n].total = loaded[n].total
        /\ quota_status[n].remaining = quota_status[n].total - quota_status[n].used

\* two debits made, the last one on a key of the ledger
C3_Witness ==
    /\ op.name = "update"
    /\ ncalls = 2
    /\ \E n \in DOMAIN debited : debited[n] = 1 + 110

\* C4 as stated: the key at index n mod C is returned for row n when it has
\* the required quota.
C4_PrimaryIsRowModC ==
    (op.name = "get_key" /\ NumKeys > 0 /\ Sufficient(op.row % NumKeys, op.req))
        => (ret.kind = "key" /\ ret.idx = op.row % NumKeys)

\* C4 amended: the key at index (n - 4) mod C is returned for row n when it
\* has the required quota.
C4_PrimaryIsOffsetRowModC ==
    (op.name = "get_key" /\ NumKeys > 0
        /\ Sufficient((op.row - ROW_OFFSET) % NumKeys, op.req))
        => (ret.kind = "key" /\ ret.idx = (op.row - ROW_OFFSET) % NumKeys)

\* three keys, and the primary returned is not the one at index n mod C
C4_Witness ==
    /\ GotKey
    /\ NumKeys = 3
    /\ ret.idx = (op.row - ROW_OFFSET) % NumKeys
    /\ ret.idx # op.row % NumKeys
    /\ Sufficient(op.row % NumKeys, op.req)

\* C5: when the primary lacks the required quota and another key has it,
\* get_key_for_row returns the first key in load order that has it, which
\* is not the primary.
C5_Fallback ==
    (op.name = "get_key" /\ NumKeys > 0
        /\ ~Sufficient((op.row - ROW_OFFSET) % NumKeys, op.req)
        /\ \E i \in KeyIndexes : Sufficient(i, op.req))
        => /\ ret.kind = "key"
           /\ ret.idx # (op.row - ROW_OFFSET) % NumKeys
           /\ Sufficient(ret.idx, op.req)
           /\ \A j \in 0 .. ret.idx - 1 : ~Sufficient(j, op.req)

\* the primary is short, two other keys are not, the first of them is returned
C5_Witness ==
    /\ GotKey
    /\ NumKeys = 3
    /\ ~Sufficient((op.row - ROW_OFFSET) % NumKeys, op.req)
    /\ Cardinality({i \in KeyIndexes : Sufficient(i, op.req)}) = 2
    /\ ret.idx = 1

\* C6: get_key_for_row raises exactly when there is no key or no key has the
\* required quota; with no key it raises at once, the no-keys error; a call
\* that raises leaves the ledger as it was.
C6_ErrorIff ==
    op.name = "get_key" =>
        /\ ret.kind = "error" <=>
              (NumKeys = 0 \/ \A i \in KeyIndexes : ~Sufficient(i, op.req))
        /\ ret.kind = "error" => (ret.err = "no_keys" <=> NumKeys = 0)
        /\ ret.kind = "error" => ret.idx = -1

C6_ErrorLeavesLedger ==
    (ncalls' = ncalls + 1 /\ op'.name = "get_key" /\ ret'.kind = "error")
        => UNCHANGED <<api_keys, quota_status>>

C6_FailsExactlyWhenItMust == []C6_ErrorIff /\ [][C6_ErrorLeavesLedger]_vars

\* keys exist and none has the required quota left after a debit
C6_Witness ==
    /\ GotError
    /\ NumKeys >= 2
    /\ ret.err = "quota"
    /\ op.req = 1
    /\ \E n \in DOMAIN debited : debited[n] > 0

-----------------------------------------------------------------------------
(* retry_with_backoff: the wrapper around one remote call.                 *)

ReturnValues == {"r1", "r2"}
HttpStatuses == {400, 404, 429, 500, 503}

\* Exceptions other than HttpError that func can raise: a network-level
\* failure, and one that is not (a malformed request, an unreadable answer).
NetworkErrors == {"ConnectionError"}
ExceptionClasses == NetworkErrors \cup {"TypeError"}

\* What one invocation of func does: it returns a value, raises HttpError
\* with a status, or raises another exception.
FuncOutcomes ==
    {[kind |-> "ok", status |-> 200, value |-> v] : v \in ReturnValues}
    \cup {[kind |-> "http", status |-> st, value |-> ""] : st \in HttpStatuses}
    \cup {[kind |-> "exc", status |-> 0, value |-> c] : c \in ExceptionClasses}

Jitters == 0 .. TicksPerSecond      \* random.uniform(0, 1), in ticks

\* A variant of the rate-limit wait that does not grow with the attempt.
rate_limit_wait_flat(attempt_no, jitter) ==
    RATE_LIMIT_WAIT * TicksPerSecond + jitter

\* wait_time of the 429 branch, in ticks
rate_limit_wait(attempt_no, jitter) ==
    RATE_LIMIT_WAIT * (2 ^ attempt_no) * TicksPerSecond + jitter

\* wait_time of the 5xx branch and of the other-exception branch, in ticks
retry_delay_wait(attempt_no) ==
    RETRY_DELAY * (2 ^ attempt_no) * TicksPerSecond

Returned(v) == [kind |-> "return", value |-> v, err |-> ""]
Raised(e) == [kind |-> "raise", value |-> "", err |-> e]

RetryInit ==
    /\ LoadedFrom(<<>>)
    /\ retry_pc = "call"
    /\ attempt = 0
    /\ func_calls = <<>>
    /\ sleeps = <<>>
    /\ retry_result = [kind |-> "none", value |-> "", err |-> ""]
    /\ MergeIdle
    /\ ScenarioIdle
    /\ MainIdle

\* return func(*args, **kwargs)
AttemptReturns ==
    /\ retry_pc = "call"
    /\ \E o \in FuncOutcomes :
        /\ o.kind = "ok"
        /\ func_calls' = Append(func_calls, o)
        /\ retry_result' = Returned(o.value)
    /\ retry_pc' = "done"
    /\ UNCHANGED <<attempt, sleeps, ledgerVars, callVars, mergeVars, scenario, mainVars>>

\* except HttpError, status 429: sleep and continue
AttemptRateLimited ==
    /\ retry_pc = "call"
    /\ \E o \in FuncOutcomes, jitter \in Jitters :
        /\ o.kind = "http" /\ o.status = 429
        /\ func_calls' = Append(func_calls, o)
        /\ sleeps' = Append(sleeps, rate_limit_wait(attempt, jitter))
    /\ retry_pc' = "sleep"
    /\ UNCHANGED <<attempt, retry_result, ledgerVars, callVars, mergeVars, scenario, mainVars>>

\* except HttpError, status >= 500: sleep and continue
AttemptServerError ==
    /\ retry_pc = "call"
    /\ \E o \in FuncOutcomes :
        /\ o.kind = "http" /\ o.status # 429 /\ o.status >= 500
        /\ func_calls' = Append(func_calls, o)
    /\ sleeps' = Append(sleeps, retry_delay_wait(attempt))
    /\ retry_pc' = "sleep"
    /\ UNCHANGED <<attempt, retry_result, ledgerVars, callVars, mergeVars, scenario, mainVars>>

\* except HttpError, any other status: raise
AttemptFatalHttp ==
    /\ retry_pc = "call"
    /\ \E o \in FuncOutcomes :
        /\ o.kind = "http" /\ o.status # 429 /\ o.status < 500
        /\ func_calls' = Append(func_calls, o)
    /\ retry_result' = Raised("http")
    /\ retry_pc' = "done"
    /\ UNCHANGED <<attempt, sleeps, ledgerVars, callVars, mergeVars, scenario, mainVars>>

\* except Exception: sleep and continue unless this was the last attempt
AttemptOtherException ==
    /\ retry_pc = "call"
    /\ \E o \in FuncOutcomes :
        /\ o.kind = "exc"
        /\ func_calls' = Append(func_calls, o)
    /\ IF attempt < MAX_RETRIES - 1
       THEN /\ sleeps' = Append(sleeps, retry_delay_wait(attempt))
            /\ retry_pc' = "sleep"
            /\ UNCHANGED retry_result
       ELSE /\ retry_result' = Raised("exc")
            /\ retry_pc' = "done"
            /\ UNCHANGED sleeps
    /\ UNCHANGED <<attempt, ledgerVars, callVars, mergeVars, scenario, mainVars>>

\* A variant of the end of a sleep that allows one attempt more.
SleepEndsOneMore ==
    /\ retry_pc = "sleep"
    /\ attempt' = attempt + 1
    /\ IF attempt + 1 <= MAX_RETRIES
       THEN /\ retry_pc' = "call"
            /\ UNCHANGED retry_result
       ELSE /\ retry_pc' = "done"
            /\ retry_result' = Raised("retries")
    /\ UNCHANGED <<func_calls, sleeps, ledgerVars, callVars, mergeVars, scenario, mainVars>>

\* time.sleep returns; continue: the next attempt, or the raise after the loop
SleepEnds ==
    /\ retry_pc = "sleep"
    /\ attempt' = attempt + 1
    /\ IF attempt + 1 < MAX_RETRIES
       THEN /\ retry_pc' = "call"
            /\ UNCHANGED retry_result
       ELSE /\ retry_pc' = "done"
            /\ retry_result' = Raised("retries")
    /\ UNCHANGED <<func_calls, sleeps, ledgerVars, callVars, mergeVars, scenario, mainVars>>

RetryNext ==
    \/ AttemptReturns
    \/ AttemptRateLimited
    \/ AttemptServerError
    \/ AttemptFatalHttp
    \/ AttemptOtherException
    \/ SleepEnds

SpecRetry == RetryInit /\ [][RetryNext]_vars

\* func returns or raises, and time.sleep returns: the wrapper keeps running
SpecRetryFair == SpecRetry /\ WF_vars(RetryNext)

(* Properties of the wrapper, under SpecRetry *)

IsRateLimited(o) == o.kind = "http" /\ o.status = 429

RateLimitedTwiceThenOk ==
    /\ Len(func_calls) >= 3
    /\ IsRateLimited(func_calls[1])
    /\ IsRateLimited(func_calls[2])
    /\ func_calls[3].kind = "ok"

\* C10: a call rate-limited on its first two attempts that succeeds on the
\* third is invoked three times, waits twice, the second wait longer than the
\* first, each RATE_LIMIT_WAIT * 2^attempt plus a jitter of 0 to 1 second,
\* and the wrapper returns what the third invocation returned.
C10_RetryScenario ==
    RateLimitedTwiceThenOk =>
        /\ Len(func_calls) = 3
        /\ Len(sleeps) = 2
        /\ sleeps[2] > sleeps[1]
        /\ \A k \in 1 .. 2 :
              /\ sleeps[k] >= RATE_LIMIT_WAIT * (2 ^ (k - 1)) * TicksPerSecond
              /\ sleeps[k] <= (RATE_LIMIT_WAIT * (2 ^ (k - 1)) + 1) * TicksPerSecond
        /\ retry_pc = "done"
        /\ retry_result = Returned(func_calls[3].value)

\* the scenario, with the largest jitter on the first wait and none on the second
C10_Witness ==
    /\ RateLimitedTwiceThenOk
    /\ retry_pc = "done"
    /\ sleeps[1] = RATE_LIMIT_WAIT * TicksPerSecond + TicksPerSecond
    /\ sleeps[2] = RATE_LIMIT_WAIT * 2 * TicksPerSecond
    /\ retry_result.value = "r2"

IsServerError(o) == o.kind = "http" /\ o.status >= 500
IsNetworkError(o) == o.kind = "exc" /\ o.value \in NetworkErrors
IsRetryable(o) == IsRateLimited(o) \/ IsServerError(o) \/ IsNetworkError(o)
IsFatal(o) == o.kind # "ok" /\ ~IsRetryable(o)
RetryDone == retry_pc = "done"

\* C11: whatever the outcomes of the wrapped call, it is invoked at most
\* MAX_RETRIES times, and the wrapper ends: it returns a value or raises.
C11_BoundedRetry ==
    /\ [](Len(func_calls) <= MAX_RETRIES)
    /\ [](RetryDone => retry_result.kind \in {"return", "raise"})
    /\ <>RetryDone

\* three attempts of three kinds, then the raise after the loop
C11_Witness ==
    /\ RetryDone
    /\ Len(func_calls) = MAX_RETRIES
    /\ IsRateLimited(func_calls[1])
    /\ IsNetworkError(func_calls[2])
    /\ IsServerError(func_calls[3])
    /\ retry_result = Raised("retries")

\* C12: an outcome that is neither a 429, nor a 5xx, nor a network failure
\* is propagated at once: it is the last invocation, no wait follows it, and
\* when it is the outcome of the first attempt there was one attempt and no
\* wait at all.
C12_FatalNotRetried ==
    \A k \in 1 .. Len(func_calls) :
        IsFatal(func_calls[k]) =>
            /\ Len(func_calls) = k
            /\ Len(sleeps) = k - 1
            /\ RetryDone
            /\ retry_result.kind = "raise"

-----------------------------------------------------------------------------
(* The merge of the RSS video ids and the bulk video ids:                  *)
(* get_channel_data_hybrid (analyzer.py) and get_channel_data (step2).     *)
(* Uploads are numbered from the newest, 1, 2, 3, ...; an RSS entry from   *)
(* which no video id could be read has video_id None, here 0.              *)

Min(a, b) == IF a < b THEN a ELSE b

\* s[a:b] of Python, 0 <= a <= b
Slice(s, a, b) == SubSeq(s, a + 1, Min(b, Len(s)))

\* uploads first + 1 .. first + n, in order
Window(first, n) == [i \in 1 .. n |-> first + i]

Elems(s) == {s[i] : i \in 1 .. Len(s)}
NoDuplicates(s) == \A i, j \in 1 .. Len(s) : i # j => s[i] # s[j]

\* [v['video_id'] for v in rss_videos if v['video_id']]
rss_ids(videos) == SelectSeq(videos, LAMBDA v : v # 0)

\* A listing names a video once.
VideoIds == 1 .. 3
SmallRss == {s \in SeqsUpTo({0} \cup VideoIds, MaxSmall) : NoDuplicates(rss_ids(s))}
SmallBulk == {s \in SeqsUpTo(VideoIds, MaxSmall) : NoDuplicates(s)}

\* parse_rss_feed returns at most 15 entries; a listing holds at most 30 items
RssFeeds ==
    SmallRss \cup {Window(first, n) : first \in 0 .. MaxShift, n \in 0 .. RSS_MAX_VIDEOS}
BulkListings ==
    SmallBulk \cup {Window(first, n) : first \in 0 .. MaxShift, n \in 0 .. PLAYLIST_MAX_RESULTS}

RECURSIVE fromkeys(_, _)
fromkeys(s, acc) ==
    IF s = <<>> THEN acc
    ELSE fromkeys(Tail(s),
                  IF \E i \in 1 .. Len(acc) : acc[i] = Head(s) THEN acc
                  ELSE Append(acc, Head(s)))

\* list(dict.fromkeys(s))
dict_fromkeys(s) == fromkeys(s, <<>>)

\* analyzer.py: api_videos of the playlist branch and of the 404 branch
hybrid_api_videos(items, shorts_only) ==
    IF shorts_only THEN items
    ELSE Slice(items, API_SLICE_FROM, PLAYLIST_MAX_RESULTS)

\* analyzer.py: all_video_ids
hybrid_all_video_ids(videos, bulk) ==
    Slice(rss_ids(videos) \o bulk, 0, MAX_VIDEO_IDS)

\* step2: api_videos of the playlist branch and of the 404 branch
step2_api_videos(items, not_found) ==
    IF not_found THEN <<>> ELSE items

\* step2: all_video_ids
step2_all_video_ids(videos, bulk) ==
    Slice(dict_fromkeys(rss_ids(videos) \o bulk), 0, MAX_VIDEO_IDS)

MergeInit ==
    /\ LoadedFrom(<<>>)
    /\ RetryIdle
    /\ rss_videos \in RssFeeds
    /\ bulk_items \in BulkListings
    /\ is_shorts_only \in BOOLEAN
    /\ api_videos = <<>>
    /\ all_video_ids = <<>>
    /\ merge_pc = "input"
    /\ ViewsIdle
    /\ ScenarioIdle
    /\ MainIdle

MergeHybrid ==
    /\ merge_pc = "input"
    /\ api_videos' = hybrid_api_videos(bulk_items, is_shorts_only)
    /\ all_video_ids' = hybrid_all_video_ids(rss_videos, api_videos')
    /\ merge_pc' = "hybrid"
    /\ UNCHANGED <<rss_videos, bulk_items, is_shorts_only, viewsVars, ledgerVars, callVars,
                   retryVars, scenario, mainVars>>

MergeStep2 ==
    /\ merge_pc = "input"
    /\ api_videos' = step2_api_videos(bulk_items, is_shorts_only)
    /\ all_video_ids' = step2_all_video_ids(rss_videos, api_videos')
    /\ merge_pc' = "step2"
    /\ UNCHANGED <<rss_videos, bulk_items, is_shorts_only, viewsVars, ledgerVars, callVars,
                   retryVars, scenario, mainVars>>

MergeNext == MergeHybrid \/ MergeStep2

SpecMerge == MergeInit /\ [][MergeNext]_vars

(* Properties of the merge, under SpecMerge *)

Merged == merge_pc \in {"hybrid", "step2"}

\* the entries of s that do not occur earlier in s, in the order of s
RECURSIVE FirstOccurrences(_)
FirstOccurrences(s) ==
    IF s = <<>> THEN <<>>
    ELSE LET init == SubSeq(s, 1, Len(s) - 1)
             last == s[Len(s)]
         IN IF last \in Elems(init) THEN FirstOccurrences(init)
            ELSE Append(FirstOccurrences(init), last)

\* C8: for an RSS sequence A and a bulk sequence B, each without repeats,
\* that share k ids, the merged list has min(30, |A| + |B| - k) entries and
\* no id twice.
C8_DedupInvariant ==
    LET A == rss_ids(rss_videos)
        B == api_videos
        k == Cardinality(Elems(A) \cap Elems(B))
    IN (Merged /\ NoDuplicates(A) /\ NoDuplicates(B))
        => /\ Len(all_video_ids) = Min(MAX_VIDEO_IDS, Len(A) + Len(B) - k)
           /\ NoDuplicates(all_video_ids)

\* C9: the merged list has at most 30 entries: the RSS ids in RSS order, then
\* the bulk ids not already present in bulk order, first occurrences only;
\* RSS entries without an id are left out.
C9_MergeOrderAndCap ==
    Merged =>
        /\ Len(all_video_ids) <= MAX_VIDEO_IDS
        /\ all_video_ids =
              Slice(FirstOccurrences(rss_ids(rss_videos) \o api_videos), 0, MAX_VIDEO_IDS)
        /\ 0 \notin Elems(all_video_ids)

-----------------------------------------------------------------------------
(* An allocation run: entities 0 .. 11 in order, each allocated with the   *)
(* same required units and, when a key is returned, debited those units.   *)

ScenarioEntities == 0 .. 11
ScenarioKeyCounts == {1, 2, 3}
ScenarioTotals == {"10", "111"}
ScenarioUnits == {4, 110}

ScenarioSheet(nkeys, total) ==
    [i \in 1 .. nkeys |->
        KeyRow(CASE i = 1 -> "k1" [] i = 2 -> "k2" [] OTHER -> "k3",
               "K", "TRUE", total, "0")]

ScenarioInit ==
    /\ \E nkeys \in ScenarioKeyCounts, total \in ScenarioTotals, units \in ScenarioUnits :
        /\ LoadedFrom(ScenarioSheet(nkeys, total))
        /\ scenario = [pc |-> "allocate", entity |-> 0, nkeys |-> nkeys,
                       total |-> total, units |-> units]
    /\ RetryIdle
    /\ MergeIdle
    /\ MainIdle

\* allocate the entity; a key is returned
ScenarioAllocated ==
    /\ scenario.pc = "allocate"
    /\ scenario.entity \in ScenarioEntities
    /\ ret' = get_key_for_row(scenario.entity, scenario.units)
    /\ ret'.kind = "key"
    /\ op' = [name |-> "get_key", row |-> scenario.entity, req |-> scenario.units]
    /\ scenario' = [scenario EXCEPT !.pc = "debit"]
    /\ UNCHANGED <<ncalls, ledgerVars, retryVars, mergeVars, mainVars>>

\* allocate the entity; the allocation raises and the entity is rejected
ScenarioRejected ==
    /\ scenario.pc = "allocate"
    /\ scenario.entity \in ScenarioEntities
    /\ ret' = get_key_for_row(scenario.entity, scenario.units)
    /\ ret'.kind = "error"
    /\ op' = [name |-> "get_key", row |-> scenario.entity, req |-> scenario.units]
    /\ scenario' = [scenario EXCEPT !.entity = @ + 1]
    /\ UNCHANGED <<ncalls, ledgerVars, retryVars, mergeVars, mainVars>>

\* debit the key returned and go on to the next entity
ScenarioDebit ==
    /\ scenario.pc = "debit"
    /\ quota_status' = update_quota_used(ret.name, scenario.units)
    /\ debited' = RecordDebit(ret.name, scenario.units)
    /\ op' = [name |-> "update", row |-> scenario.entity, req |-> scenario.units]
    /\ scenario' = [scenario EXCEPT !.pc = "allocate", !.entity = @ + 1]
    /\ UNCHANGED <<ret, ncalls, api_sheet, api_keys, loaded, retryVars, mergeVars, mainVars>>

ScenarioNext == ScenarioAllocated \/ ScenarioRejected \/ ScenarioDebit

SpecScenario == ScenarioInit /\ [][ScenarioNext]_vars

(* Properties of the allocation run, under SpecScenario *)

TheScenario == scenario.nkeys = 3 /\ scenario.total = "10" /\ scenario.units = 4
JustAllocated == scenario.pc = "debit"
JustRejected == scenario.pc = "allocate" /\ op.name = "get_key" /\ ret.kind = "error"

\* the primary of an entity as C7 states it
StatedPrimary(n) ==
    CASE n \in {0, 3, 6, 9} -> 0
      [] n \in {1, 4, 7, 10} -> 1
      [] n \in {2, 5, 8, 11} -> 2

\* the primary of an entity by (n - 4) mod 3
OffsetPrimary(n) ==
    CASE n \in {0, 3, 6, 9} -> 2
      [] n \in {1, 4, 7, 10} -> 0
      [] n \in {2, 5, 8, 11} -> 1

ScenarioHolds(Primary(_)) ==
    TheScenario =>
        /\ JustAllocated =>
              /\ Sufficient(ret.idx, 4)
              /\ Sufficient(Primary(op.row), 4) => ret.idx = Primary(op.row)
        /\ JustRejected =>
              /\ ret.err = "quota"
              /\ \A i \in KeyIndexes : ~Sufficient(i, 4)
        /\ \A n \in DOMAIN quota_status : quota_status[n].used <= 10

\* C7 as stated: 3 keys of quota 10, 12 entities of 4 units: entities 0,3,6,9
\* go to key 0, 1,4,7,10 to key 1 and 2,5,8,11 to key 2 while that key has 4
\* units left; a key returned has 4 units left; a rejection means no key has;
\* no key's used exceeds 10.
C7_ScenarioAsStated == ScenarioHolds(StatedPrimary)

\* C7 amended: the same, with entities 0,3,6,9 going to key 2, 1,4,7,10 to
\* key 0 and 2,5,8,11 to key 1.
C7_ScenarioByOffset == ScenarioHolds(OffsetPrimary)

\* the run is over: every key served two entities, the last entity was rejected
C7_Witness ==
    /\ TheScenario
    /\ scenario.entity = 12
    /\ JustRejected
    /\ \A n \in DOMAIN quota_status : quota_status[n].used = 8
    /\ DOMAIN quota_status = {"k1", "k2", "k3"}

-----------------------------------------------------------------------------
(* main(): the row loop, with get_channel_data_hybrid and                  *)
(* extract_channel_id_from_url followed from one manager call or remote    *)
(* call to the next.  A remote call is the wrapped call: it returns or it  *)
(* raises once the wrapper gives up.                                       *)

QUOTA_RESOLVE == 1      \* required_quota of extract_channel_id_from_url
QUOTA_COLLECT == 110    \* required_quota of get_channel_data_hybrid
UNIT == 1               \* units of every update_quota_used call

StartRows == {2}

\* The rows of the data tab: URL (B), handle (C), channel_id (X).
Urls == {"", "https://youtube.com/channel/UC1", "https://youtube.com/@h", "https://youtube.com/c/n"}
DataRows == [url : Urls, handle : {"", "@h"}, channel_id : {"", "UC1"}]

HasChannelPath(url) == url = "https://youtube.com/channel/UC1"   \* '/channel/' in channel_url
HasHandle(url) == url = "https://youtube.com/@h"                 \* re.search(r'@([^/\s?]+)', url)

MainSheets == SeqsUpTo(SheetRows, MaxMainKeyRows)

MainInit ==
    /\ \E rows \in MainSheets : LoadedFrom(rows)
    /\ RetryIdle
    /\ MergeIdle
    /\ ScenarioIdle
    /\ BatchIdle
    /\ Step1Idle
    /\ pc = "start"
    /\ start_row \in StartRows
    /\ end_row \in start_row - 1 .. start_row + MaxRows - 1
    /\ row_num = start_row
    /\ row_data = NoRow
    /\ cur_key = ""
    /\ success_count = 0
    /\ fail_count = 0

Quiet == UNCHANGED <<ncalls, retryVars, mergeVars, scenario, start_row, end_row, batchVars, step1Vars>>
NoManagerCall == UNCHANGED <<op, ret, cur_key>>
NoDebit == UNCHANGED ledgerVars
SameRow == UNCHANGED <<row_num, row_data, success_count, fail_count>>

Goto(p) == pc' = p /\ SameRow

\* get_channel_data_hybrid returns: its locals are gone
DropLocals ==
    /\ op' = [name |-> "return", row |-> row_num, req |-> 0]
    /\ ret' = NoResult
    /\ cur_key' = ""

\* api_manager.get_key_for_row(row_number, required_quota)
Allocate(required_quota) ==
    /\ ret' = get_key_for_row(row_num, required_quota)
    /\ op' = [name |-> "get_key", row |-> row_num, req |-> required_quota]
    /\ cur_key' = ret'.name
    /\ NoDebit

\* api_manager.update_quota_used(key_name, 1)
Debit ==
    /\ quota_status' = update_quota_used(cur_key, UNIT)
    /\ debited' = RecordDebit(cur_key, UNIT)
    /\ UNCHANGED <<api_sheet, api_keys, loaded>>

\* the function goes on after the debit, or after a call that was not billed
Billed == op' = [name |-> "update", row |-> row_num, req |-> UNIT] /\ UNCHANGED <<ret, cur_key>>

\* get_channel_data_hybrid returned None: the row failed, on to the next row
RowFailed ==
    /\ pc' = "loop"
    /\ row_num' = row_num + 1
    /\ fail_count' = fail_count + 1
    /\ UNCHANGED <<row_data, success_count>>
    /\ DropLocals

\* get_channel_data_hybrid returned the result: on to the next row
RowCollected ==
    /\ pc' = "loop"
    /\ row_num' = row_num + 1
    /\ success_count' = success_count + 1
    /\ UNCHANGED <<row_data, fail_count>>
    /\ DropLocals

\* a variant of the branch below that enters the loop without a key
MainNoKeysGoesOn ==
    /\ pc = "start"
    /\ Len(api_keys) = 0
    /\ Goto("loop")
    /\ NoManagerCall /\ NoDebit /\ Quiet

\* main(): if not api_manager.api_keys: return
MainNoKeys ==
    /\ pc = "start"
    /\ Len(api_keys) = 0
    /\ pc' = "done"
    /\ SameRow /\ NoManagerCall /\ NoDebit /\ Quiet

MainStart ==
    /\ pc = "start"
    /\ Len(api_keys) > 0
    /\ Goto("loop")
    /\ NoManagerCall /\ NoDebit /\ Quiet

\* the range is exhausted
LoopEnds ==
    /\ pc = "loop"
    /\ row_num > end_row
    /\ pc' = "done"
    /\ SameRow /\ NoManagerCall /\ NoDebit /\ Quiet

\* the row has no data, fewer than 3 cells, or neither URL nor handle: continue
RowSkipped ==
    /\ pc = "loop"
    /\ row_num <= end_row
    /\ \E data \in DataRows :
        /\ data.url = "" /\ data.handle = ""
        /\ row_data' = data
    /\ pc' = "loop"
    /\ row_num' = row_num + 1
    /\ UNCHANGED <<success_count, fail_count>>
    /\ NoManagerCall /\ NoDebit /\ Quiet

\* get_channel_data_hybrid begins; a row that has its channel_id needs no search
RowRead ==
    /\ pc = "loop"
    /\ row_num <= end_row
    /\ \E data \in DataRows :
        /\ data.url # "" \/ data.handle # ""
        /\ row_data' = data
        /\ pc' = IF data.channel_id # "" \/ HasChannelPath(data.url) THEN "collect"
                 ELSE IF data.handle # "" THEN "sheet_handle"
                 ELSE "url_handle"
    /\ UNCHANGED <<row_num, success_count, fail_count>>
    /\ NoManagerCall /\ NoDebit /\ Quiet

\* extract_channel_id_from_url, handle of column C: get_key_for_row(row, 1)
SheetHandleKey ==
    /\ pc = "sheet_handle"
    /\ Allocate(QUOTA_RESOLVE)
    /\ Goto(IF ret'.kind = "key" THEN "sheet_handle_call" ELSE "url_handle")
    /\ Quiet

\* channels().list(forHandle): an id, no item, or an exception (caught)
SheetHandleCall ==
    /\ pc = "sheet_handle_call"
    /\ \/ Debit /\ Billed /\ Goto("collect")
       \/ Debit /\ Billed /\ Goto("url_handle")
       \/ NoDebit /\ NoManagerCall /\ Goto("url_handle")
    /\ Quiet

\* extract_channel_id_from_url, handle of the URL: none, or get_key_for_row(row, 1)
UrlHandleKey ==
    /\ pc = "url_handle"
    /\ IF ~HasHandle(row_data.url)
       THEN NoManagerCall /\ NoDebit /\ Goto("ytdlp")
       ELSE /\ Allocate(QUOTA_RESOLVE)
            /\ Goto(IF ret'.kind = "key" THEN "url_handle_call" ELSE "scrape")
    /\ Quiet

UrlHandleCall ==
    /\ pc = "url_handle_call"
    /\ \/ Debit /\ Billed /\ Goto("collect")
       \/ Debit /\ Billed /\ Goto("scrape")
       \/ NoDebit /\ NoManagerCall /\ Goto("scrape")
    /\ Quiet

\* the page of the channel is fetched and searched for the id
Scrape ==
    /\ pc = "scrape"
    /\ \/ Goto("collect")
       \/ Goto("ytdlp")
    /\ NoManagerCall /\ NoDebit /\ Quiet

\* extract_channel_id_ytdlp: an id, or get_channel_data_hybrid returns None
Ytdlp ==
    /\ pc = "ytdlp"
    /\ \/ NoManagerCall /\ Goto("collect")
       \/ RowFailed
    /\ NoDebit /\ Quiet

\* get_channel_data_hybrid: get_key_for_row(row_number, 110)
CollectKey ==
    /\ pc = "collect"
    /\ IF get_key_for_row(row_num, QUOTA_COLLECT).kind = "key"
       THEN Allocate(QUOTA_COLLECT) /\ Goto("channels")
       ELSE NoDebit /\ RowFailed
    /\ Quiet

\* channels().list: the channel, no item, or an exception
CallChannels ==
    /\ pc = "channels"
    /\ \/ Debit /\ Billed /\ Goto("playlist")
       \/ Debit /\ RowFailed
       \/ NoDebit /\ RowFailed
    /\ Quiet

\* playlistItems().list: the items, HTTP 404, or another exception
CallPlaylist ==
    /\ pc = "playlist"
    /\ \/ Debit /\ Billed /\ Goto("merge")
       \/ Debit /\ Billed /\ Goto("activities")
       \/ NoDebit /\ RowFailed
    /\ Quiet

\* get_shorts_channel_data, activities().list: uploads, none, or an exception
CallActivities ==
    /\ pc = "activities"
    /\ \/ Debit /\ Billed /\ Goto("shorts_videos")
       \/ Debit /\ Billed /\ Goto("merge")
       \/ NoDebit /\ NoManagerCall /\ Goto("merge")
    /\ Quiet

\* get_shorts_channel_data, videos().list: the durations, or an exception
CallShortsVideos ==
    /\ pc = "shorts_videos"
    /\ \/ Debit /\ Billed /\ Goto("merge")
       \/ NoDebit /\ NoManagerCall /\ Goto("merge")
    /\ Quiet

\* all_video_ids is empty and the result is returned, or the statistics follow
MergeIds ==
    /\ pc = "merge"
    /\ \/ RowCollected
       \/ NoManagerCall /\ Goto("videos")
    /\ NoDebit /\ Quiet

\* a variant of the call below in which the exception ends the run
CallVideosAborts ==
    /\ pc = "videos"
    /\ \/ Debit /\ RowCollected
       \/ NoDebit /\ NoManagerCall /\ SameRow /\ pc' = "done"
    /\ Quiet

\* videos().list of the merged ids: the statistics, or an exception
CallVideos ==
    /\ pc = "videos"
    /\ \/ Debit /\ RowCollected
       \/ NoDebit /\ RowFailed
    /\ Quiet

Next ==
    \/ MainNoKeys
    \/ MainStart
    \/ LoopEnds
    \/ RowSkipped
    \/ RowRead
    \/ SheetHandleKey
    \/ SheetHandleCall
    \/ UrlHandleKey
    \/ UrlHandleCall
    \/ Scrape
    \/ Ytdlp
    \/ CollectKey
    \/ CallChannels
    \/ CallPlaylist
    \/ CallActivities
    \/ CallShortsVideos
    \/ MergeIds
    \/ CallVideos

Spec == MainInit /\ [][Next]_vars

\* The wrapper around one remote call, and the run of main() whose remote
\* calls are such wrapped calls.
CallOrRunInit == RetryInit \/ MainInit
CallOrRunNext == RetryNext \/ Next
SpecCallOrRun == CallOrRunInit /\ [][CallOrRunNext]_vars

(* Properties of the run, under Spec *)

\* C2 as stated: remaining is never negative, right after the load and after
\* every debit of the run.
C2_RemainingNeverNegative ==
    \A n \in DOMAIN quota_status : quota_status[n].remaining >= 0

\* C2 amended: a key loaded with used <= total never has a negative
\* remaining; a key loaded with used > total keeps the negative remaining it
\* was loaded with and is never debited.
C2_RemainingNeverBelowLoaded ==
    \A n \in DOMAIN quota_status :
        /\ loaded[n].remaining >= 0 => quota_status[n].remaining >= 0
        /\ loaded[n].remaining < 0 => quota_status[n] = loaded[n]

\* the debit after the statistics call of a row that took the 404 branch,
\* with a key in the ledger that was loaded overdrawn
C2_Witness ==
    /\ pc = "loop"
    /\ success_count = 1
    /\ \E n \in DOMAIN debited : debited[n] >= 5
    /\ \E n \in DOMAIN loaded : loaded[n].remaining < 0


\* the states of main() in which a wrapped remote call is in progress
CallPcs == {"sheet_handle_call", "url_handle_call", "channels", "playlist",
            "activities", "shorts_videos", "videos"}

\* every attempt of the wrapper ended in a 429, a 5xx or a network failure
AllRetryable ==
    /\ RetryDone
    /\ Len(func_calls) = MAX_RETRIES
    /\ \A k \in 1 .. MAX_RETRIES : IsRetryable(func_calls[k])

\* a wrapped call of main() raised: no unit was debited for it
CallRaised == pc \in CallPcs /\ debited' = debited /\ pc' # pc

\* the failure stays with the row: the function goes on without the answer,
\* or the row fails and the loop moves to the next row
RowOnlyFailure ==
    CallRaised =>
        \/ /\ pc' \in {"url_handle", "scrape", "merge"}
           /\ UNCHANGED <<row_num, success_count, fail_count>>
        \/ /\ pc' = "loop"
           /\ row_num' = row_num + 1
           /\ fail_count' = fail_count + 1
           /\ UNCHANGED success_count

RunEndsAfterRange == pc = "done" => (Len(api_keys) = 0 \/ row_num = end_row + 1)

\* C13 as stated: after MAX_RETRIES retryable outcomes the wrapper raises the
\* retries-exhausted error; in main() a call that raised fails that call for
\* that row only, and the loop goes on until the range is exhausted.
C13_RetriesExhausted ==
    /\ [](AllRetryable => retry_result = Raised("retries"))
    /\ [][RowOnlyFailure]_vars
    /\ []RunEndsAfterRange

\* C13 amended: the wrapper raises the retries-exhausted error when the last
\* attempt was a 429 or a 5xx, and the exception of the last attempt itself
\* when that was a network failure; the rest as stated.
C13_RetriesExhaustedOrLastError ==
    /\ [](AllRetryable =>
            retry_result = IF func_calls[MAX_RETRIES].kind = "exc"
                           THEN Raised("exc") ELSE Raised("retries"))
    /\ [][RowOnlyFailure]_vars
    /\ []RunEndsAfterRange

\* a 429, a 5xx, then a network failure: the last exception is what is raised
C13_Witness ==
    /\ AllRetryable
    /\ IsRateLimited(func_calls[1])
    /\ IsServerError(func_calls[2])
    /\ IsNetworkError(func_calls[3])
    /\ retry_result = Raised("exc")

-----------------------------------------------------------------------------
(* main(): the row loop and its batched writes.  get_channel_data_hybrid   *)
(* is the call it is for main(): it returns the data of the row, or None   *)
(* (no channel_id, no key with quota, a remote call gave up, any other     *)
(* exception); it never raises.  The cells of a row are added to           *)
(* batch_cells together and written together, so batch_cells is kept as    *)
(* the number of rows whose cells it holds.                                *)

BatchSheet == <<KeyRow("k1", "A", "TRUE", "111", "0")>>

BatchInit ==
    /\ LoadedFrom(BatchSheet)
    /\ RetryIdle
    /\ MergeIdle
    /\ ScenarioIdle
    /\ BatchIdle
    /\ Step1Idle
    /\ pc = "rows"
    /\ start_row \in StartRows
    /\ end_row \in start_row - 1 .. start_row + MaxLoopRows - 1
    /\ row_num = start_row
    /\ row_data = NoRow
    /\ cur_key = ""
    /\ success_count = 0
    /\ fail_count = 0

BatchQuiet ==
    UNCHANGED <<ledgerVars, ret, ncalls, retryVars, mergeVars, scenario,
                start_row, end_row, row_data, cur_key, step1Vars>>

\* history: how the body of the loop ended for row_num
Outcome(name) == op' = [name |-> name, row |-> row_num, req |-> 0]

\* for row_num in range(start_row, end_row + 1): the body runs for row_num
InLoop ==
    /\ pc = "rows"
    /\ row_num <= end_row
    /\ visited' = Append(visited, row_num)

NextRow == pc' = "rows" /\ row_num' = row_num + 1

\* batch_rows_count >= BATCH_SIZE or row_num == end_row, after the row was added
FlushDue == batch_rows_count + 1 >= BATCH_SIZE \/ row_num = end_row

\* batch_cells.extend(cells); batch_rows_count += 1; success_count += 1
AddRow ==
    /\ batch_cells' = batch_cells + 1
    /\ batch_rows_count' = batch_rows_count + 1
    /\ success_count' = success_count + 1

\* no data, fewer than 3 cells, or neither URL nor handle: continue
BatchRowSkipped ==
    /\ InLoop
    /\ Outcome("skipped")
    /\ NextRow
    /\ UNCHANGED <<success_count, fail_count, batch_cells, batch_rows_count, written, last_write>>
    /\ BatchQuiet

\* a variant of the branch below that leaves the row uncounted
BatchRowFailedUncounted ==
    /\ InLoop
    /\ Outcome("failed")
    /\ NextRow
    /\ UNCHANGED <<success_count, fail_count, batch_cells, batch_rows_count, written, last_write>>
    /\ BatchQuiet

\* get_channel_data_hybrid returned None: fail_count += 1; continue
BatchRowFailed ==
    /\ InLoop
    /\ Outcome("failed")
    /\ NextRow
    /\ fail_count' = fail_count + 1
    /\ UNCHANGED <<success_count, batch_cells, batch_rows_count, written, last_write>>
    /\ BatchQuiet

\* the row is collected and no write is due
BatchRowHeld ==
    /\ InLoop
    /\ Outcome("collected")
    /\ ~FlushDue
    /\ AddRow
    /\ NextRow
    /\ UNCHANGED <<fail_count, written, last_write>>
    /\ BatchQuiet

\* the row is collected and the write that is due succeeds
BatchRowFlushed ==
    /\ InLoop
    /\ Outcome("collected")
    /\ FlushDue
    /\ success_count' = success_count + 1
    /\ last_write' = [rows |-> batch_cells + 1, at |-> row_num, ok |-> TRUE]
    /\ written' = written + batch_cells + 1
    /\ batch_cells' = 0
    /\ batch_rows_count' = 0
    /\ NextRow
    /\ UNCHANGED fail_count
    /\ BatchQuiet

\* the row is collected and the write that is due raises: except Exception
BatchRowFlushRaised ==
    /\ InLoop
    /\ Outcome("write_raised")
    /\ FlushDue
    /\ AddRow
    /\ last_write' = [rows |-> batch_cells + 1, at |-> row_num, ok |-> FALSE]
    /\ fail_count' = fail_count + 1
    /\ NextRow
    /\ UNCHANGED written
    /\ BatchQuiet

\* a variant of the end of the loop that writes nothing
LoopEndsUnflushed ==
    /\ pc = "rows"
    /\ row_num > end_row
    /\ Outcome("end")
    /\ pc' = "done"
    /\ UNCHANGED <<row_num, success_count, fail_count, batchVars>>
    /\ BatchQuiet

\* after the loop: if batch_cells: update_cells(batch_cells); then the summary
LoopEndsFlushed ==
    /\ pc = "rows"
    /\ row_num > end_row
    /\ Outcome("end")
    /\ IF batch_cells = 0
       THEN pc' = "done" /\ UNCHANGED <<written, last_write>>
       ELSE \/ /\ last_write' = [rows |-> batch_cells, at |-> row_num, ok |-> TRUE]
               /\ written' = written + batch_cells
               /\ pc' = "done"
            \/ /\ last_write' = [rows |-> batch_cells, at |-> row_num, ok |-> FALSE]
               /\ pc' = "aborted"
               /\ UNCHANGED written
    /\ UNCHANGED <<row_num, success_count, fail_count, batch_cells, batch_rows_count, visited>>
    /\ BatchQuiet

BatchNext ==
    \/ BatchRowSkipped
    \/ BatchRowFailed
    \/ BatchRowHeld
    \/ BatchRowFlushed
    \/ BatchRowFlushRaised
    \/ LoopEndsFlushed

SpecBatch == BatchInit /\ [][BatchNext]_vars

\* every call of the loop body returns or raises
SpecBatchFair == SpecBatch /\ WF_vars(BatchNext)

(* Properties of the row loop, under SpecBatch and SpecBatchFair *)

LoopOver == pc \in {"done", "aborted"}
RangeRows == [i \in 1 .. end_row - start_row + 1 |-> start_row + i - 1]

\* the rows visited so far are the first rows of the range, in ascending order
VisitedInOrder ==
    /\ Len(visited) <= Len(RangeRows)
    /\ \A i \in 1 .. Len(visited) : visited[i] = RangeRows[i]

\* a row for which the body ended in a failure is added to fail_count
FailureCounted ==
    op'.name \in {"failed", "write_raised"} => fail_count' = fail_count + 1

\* the run stops short of the summary only when the write after the loop raises
AbortedByLastWrite ==
    pc = "aborted" => (~last_write.ok /\ last_write.at = end_row + 1)

C16_FinalFlush ==
    /\ pc = "done" => written = success_count
    /\ pc = "aborted" => (~last_write.ok /\ written + last_write.rows = success_count)

\* fewer rows than a batch were collected, the last row of the range was not
\* one of them, and the write after the loop wrote them
C16_Witness ==
    /\ pc = "done"
    /\ success_count \in 1 .. BATCH_SIZE - 1
    /\ fail_count > 0
    /\ last_write = [rows |-> success_count, at |-> end_row + 1, ok |-> TRUE]
    /\ written = success_count

\* C17: the pending batch never holds more than BATCH_SIZE rows, no write
\* carries more than BATCH_SIZE rows, and right after a write inside the loop
\* the pending batch is empty and its counter is 0.
C17_BatchBound ==
    /\ batch_cells <= BATCH_SIZE
    /\ batch_rows_count <= BATCH_SIZE
    /\ last_write.rows <= BATCH_SIZE
    /\ (pc = "rows" /\ last_write.ok /\ last_write.at = row_num - 1)
          => (batch_cells = 0 /\ batch_rows_count = 0)

-----------------------------------------------------------------------------
(* The RANGE setting and the rows it selects: main() of analyzer.py, and   *)
(* parse_range and process_step1 of step1_extract_channel_ids.py.          *)
(* A string is the sequence of its characters.                             *)

DigitChars == <<"0", "1", "2", "3", "4", "5", "6", "7", "8", "9">>

\* str(n), for 0 <= n < 100
Chars(n) ==
    IF n < 10 THEN <<DigitChars[n + 1]>>
    ELSE <<DigitChars[(n \div 10) + 1], DigitChars[(n % 10) + 1]>>

IsDigit(ch) == \E d \in 1 .. 10 : DigitChars[d] = ch
DigitValue(ch) == (CHOOSE d \in 1 .. 10 : DigitChars[d] = ch) - 1

\* str.strip()
RECURSIVE StripSeq(_)
StripSeq(str) ==
    IF str = <<>> THEN str
    ELSE IF Head(str) = " " THEN StripSeq(Tail(str))
    ELSE IF str[Len(str)] = " " THEN StripSeq(SubSeq(str, 1, Len(str) - 1))
    ELSE str

\* str.split(sep)
RECURSIVE SplitSeq(_, _, _, _)
SplitSeq(str, sep, cur, acc) ==
    IF str = <<>> THEN Append(acc, cur)
    ELSE IF Head(str) = sep THEN SplitSeq(Tail(str), sep, <<>>, Append(acc, cur))
    ELSE SplitSeq(Tail(str), sep, Append(cur, Head(str)), acc)

split(str, sep) == SplitSeq(str, sep, <<>>, <<>>)

RECURSIVE DigitsValue(_, _)
DigitsValue(str, acc) ==
    IF str = <<>> THEN acc ELSE DigitsValue(Tail(str), 10 * acc + DigitValue(Head(str)))

\* int(str): the number, or -1 where int raises ValueError
int(str) ==
    LET t == StripSeq(str)
    IN IF t # <<>> /\ \A i \in 1 .. Len(t) : IsDigit(t[i]) THEN DigitsValue(t, 0) ELSE -1

Contains(str, ch) == \E i \in 1 .. Len(str) : str[i] = ch

Rows(a, b) == [ok |-> TRUE, start_row |-> a, end_row |-> b]
ValueError == [ok |-> FALSE, start_row |-> 0, end_row |-> 0]

\* main(), analyzer.py: the range read from RANGE
main_range(range_str, all_rows) ==
    LET range_in == StripSeq(range_str)
        parts == split(range_in, "-")
    IN IF range_in = <<>> THEN Rows(2, all_rows)
       ELSE IF Contains(range_in, "-")
            THEN IF Len(parts) = 2 /\ int(parts[1]) >= 0 /\ int(parts[2]) >= 0
                 THEN Rows(int(parts[1]), int(parts[2]))
                 ELSE ValueError
       ELSE IF int(range_in) >= 0 THEN Rows(int(range_in), int(range_in))
       ELSE ValueError

\* parse_range(range_str, total_rows), step1
parse_range(range_str, all_rows) ==
    LET range_in == StripSeq(range_str)
        sep == IF Contains(range_in, ",") THEN "," ELSE "-"
        parts == split(range_in, sep)
    IN IF range_in = <<>> THEN Rows(2, all_rows)
       ELSE IF Contains(range_in, ",") \/ Contains(range_in, "-")
            THEN IF int(parts[1]) >= 0 /\ int(parts[2]) >= 0
                 THEN Rows(int(parts[1]), int(parts[2]))
                 ELSE ValueError
       ELSE IF int(range_in) >= 0 THEN Rows(int(range_in), int(range_in))
       ELSE ValueError

\* The values of RANGE: unset, blank, one row, two rows around "-" or ",",
\* with and without blanks, a row of two digits, and text that is no number.
RangeNumbers == 1 .. MaxSheetRows + 1
RangeInputs ==
    {<<>>, <<" ">>, <<"a">>, <<"2", "-">>}
    \cup {Chars(a) : a \in RangeNumbers \cup {10}}
    \cup {Chars(a) \o <<"-">> \o Chars(b) : a \in RangeNumbers, b \in RangeNumbers \cup {10}}
    \cup {<<" ">> \o Chars(a) \o <<" ", "-">> \o Chars(a + 1) \o <<" ">> : a \in RangeNumbers}
    \cup {Chars(a) \o <<",">> \o Chars(a + 1) : a \in RangeNumbers}

RangeQuiet ==
    UNCHANGED <<ledgerVars, ret, ncalls, retryVars, mergeVars, scenario, cur_key,
                success_count, fail_count, batch_cells, batch_rows_count, written, last_write>>

RangeInit ==
    /\ LoadedFrom(BatchSheet)
    /\ RetryIdle
    /\ MergeIdle
    /\ ScenarioIdle
    /\ BatchIdle
    /\ pc \in {"m_range", "s1_start"}
    /\ range_input \in RangeInputs
    /\ total_rows \in 1 .. MaxSheetRows
    /\ first_api_key \in IF pc = "s1_start" THEN {"", "A"} ELSE {""}
    /\ processed = <<>>
    /\ channel_ids_data = <<>>
    /\ existing_count = 0
    /\ failed_count = 0
    /\ start_row = 0
    /\ end_row = 0
    /\ row_num = 0
    /\ row_data = NoRow
    /\ cur_key = ""
    /\ success_count = 0
    /\ fail_count = 0

\* main(): RANGE is read; a value that is no range ends main() in its handler
RangeMainStart ==
    /\ pc = "m_range"
    /\ LET r == main_range(range_input, total_rows)
       IN IF r.ok
          THEN /\ start_row' = r.start_row
               /\ end_row' = r.end_row
               /\ row_num' = r.start_row
               /\ pc' = "m_rows"
          ELSE /\ pc' = "aborted"
               /\ UNCHANGED <<start_row, end_row, row_num>>
    /\ Outcome("range")
    /\ UNCHANGED <<row_data, visited, step1Vars>>
    /\ RangeQuiet

\* main(): the body of the loop up to row_data = all_sheet_data[row_idx]
RangeMainRow ==
    /\ pc = "m_rows"
    /\ row_num <= end_row
    /\ visited' = Append(visited, row_num)
    /\ processed' = IF row_num - 1 >= total_rows THEN processed
                     ELSE Append(processed, row_num)
    /\ row_num' = row_num + 1
    /\ Outcome("row")
    /\ UNCHANGED <<pc, start_row, end_row, row_data, range_input, total_rows,
                   first_api_key, channel_ids_data, existing_count, failed_count>>
    /\ RangeQuiet

RangeMainEnd ==
    /\ pc = "m_rows"
    /\ row_num > end_row
    /\ pc' = "done"
    /\ Outcome("end")
    /\ UNCHANGED <<start_row, end_row, row_num, row_data, visited, step1Vars>>
    /\ RangeQuiet

(* process_step1.  A row of the data tab is its cells A, B, C, W and X, at *)
(* the 0-based indexes 0, 1, 2, 22 and 23; the COL_ constants are those of *)
(* config.py, which are 0-based.                                           *)

S1_COL_CHANNEL_NAME == 0
S1_COL_URL == 1
S1_COL_HANDLE == 2
S1_COL_CHANNEL_ID == 23
RowWidth == 24          \* cells in a row of the data tab that is filled up to column X

Cells(a, b, c, w, x) == [i \in {0, 1, 2, 22, 23} |->
    CASE i = 0 -> a [] i = 1 -> b [] i = 2 -> c [] i = 22 -> w [] i = 23 -> x]

\* row_data[i] of Python, for the cells of the model: -1 is the last cell
Cell(row, i) == IF i = -1 THEN row[RowWidth - 1] ELSE row[i]

Step1Rows ==
    {Cells("", "", "", "", "")}
    \cup {Cells("Name", u, h, w, x) :
            u \in {"https://youtube.com/channel/UC1", "https://youtube.com/@h"},
            h \in {"", "@h"},
            w \in {"", "3", "UC1"},
            x \in {"", "UC1"}}

\* what process_step1 reads from the row
step1_url(row) == Cell(row, S1_COL_URL - 1)
step1_handle(row) == Cell(row, S1_COL_HANDLE - 1)
step1_existing_channel_id(row) == Cell(row, S1_COL_CHANNEL_ID - 1)

StartsWithUC(cell) == cell = "UC1"      \* cell.strip().startswith('UC')

Step1Quiet ==
    UNCHANGED <<ledgerVars, ret, ncalls, retryVars, mergeVars, scenario, cur_key,
                success_count, fail_count, batchVars,
                range_input, total_rows, first_api_key, start_row, end_row>>

\* the sheet is empty or has its header only: return
Step1Empty ==
    /\ pc = "s1_start"
    /\ total_rows < 2
    /\ pc' = "done"
    /\ Outcome("empty")
    /\ UNCHANGED <<start_row, end_row, row_num, row_data, visited, step1Vars>>
    /\ RangeQuiet

\* parse_range; the API keys are loaded; a value that is no range raises
Step1Start ==
    /\ pc = "s1_start"
    /\ total_rows >= 2
    /\ LET r == parse_range(range_input, total_rows)
       IN IF r.ok
          THEN /\ start_row' = r.start_row
               /\ end_row' = r.end_row
               /\ row_num' = r.start_row
               /\ pc' = "s1_rows"
          ELSE /\ pc' = "aborted"
               /\ UNCHANGED <<start_row, end_row, row_num>>
    /\ Outcome("range")
    /\ UNCHANGED <<row_data, visited, step1Vars>>
    /\ RangeQuiet

\* for row_num in range(start_row, end_row + 1), past the break
Step1InLoop ==
    /\ pc = "s1_rows"
    /\ row_num <= end_row
    /\ row_num < total_rows
    /\ processed' = Append(processed, row_num)
    /\ row_num' = row_num + 1

\* if row_num >= len(all_values): break; or the range is exhausted
Step1LoopEnds ==
    /\ pc = "s1_rows"
    /\ row_num > end_row \/ row_num >= total_rows
    /\ pc' = "s1_save"
    /\ Outcome("end")
    /\ UNCHANGED <<row_num, row_data, processed, channel_ids_data, existing_count, failed_count>>
    /\ Step1Quiet

\* if not url and not handle: continue
Step1RowSkipped ==
    /\ Step1InLoop
    /\ \E row \in Step1Rows :
        /\ step1_url(row) = "" /\ step1_handle(row) = ""
        /\ row_data' = row
    /\ Outcome("skipped")
    /\ UNCHANGED <<pc, channel_ids_data, existing_count, failed_count>>
    /\ Step1Quiet

\* the existing channel_id starts with UC: existing_count += 1; continue
Step1RowExisting ==
    /\ Step1InLoop
    /\ \E row \in Step1Rows :
        /\ step1_url(row) # "" \/ step1_handle(row) # ""
        /\ StartsWithUC(step1_existing_channel_id(row))
        /\ row_data' = row
    /\ existing_count' = existing_count + 1
    /\ Outcome("existing")
    /\ UNCHANGED <<pc, channel_ids_data, failed_count>>
    /\ Step1Quiet

\* extract_channel_id(url, handle, api_key): from the URL, from the API when
\* there is a handle and a key, from the web page when there is a handle
Step1Means(row) ==
    {m \in {"url", "api", "web"} :
        \/ m = "url" /\ HasChannelPath(step1_url(row))
        \/ /\ m = "api"
           /\ ~HasChannelPath(step1_url(row))
           /\ step1_handle(row) # "" /\ first_api_key # ""
        \/ /\ m = "web"
           /\ ~HasChannelPath(step1_url(row))
           /\ step1_handle(row) # ""}

Step1NeedsId(row) ==
    /\ step1_url(row) # "" \/ step1_handle(row) # ""
    /\ ~StartsWithUC(step1_existing_channel_id(row))

\* the channel_id is found and the row is added to channel_ids_data
Step1RowExtracted ==
    /\ Step1InLoop
    /\ \E row \in Step1Rows :
        /\ Step1NeedsId(row)
        /\ row_data' = row
        /\ \E m \in Step1Means(row) : Outcome(m)
    /\ channel_ids_data' = Append(channel_ids_data, row_num)
    /\ UNCHANGED <<pc, existing_count, failed_count>>
    /\ Step1Quiet

\* no means gives a channel_id: failed_count += 1
Step1RowFailed ==
    /\ Step1InLoop
    /\ \E row \in Step1Rows :
        /\ Step1NeedsId(row)
        /\ ~HasChannelPath(step1_url(row))
        /\ row_data' = row
    /\ failed_count' = failed_count + 1
    /\ Outcome("none")
    /\ UNCHANGED <<pc, channel_ids_data, existing_count>>
    /\ Step1Quiet

\* json.dump(channel_ids_data), then the summary
Step1Save ==
    /\ pc = "s1_save"
    /\ pc' = "done"
    /\ Outcome("saved")
    /\ UNCHANGED <<row_num, row_data, processed, channel_ids_data, existing_count, failed_count>>
    /\ Step1Quiet

RangeNext ==
    \/ RangeMainStart
    \/ RangeMainRow
    \/ RangeMainEnd
    \/ Step1Empty
    \/ Step1Start
    \/ Step1LoopEnds
    \/ Step1RowSkipped
    \/ Step1RowExisting
    \/ Step1RowExtracted
    \/ Step1RowFailed
    \/ Step1Save

SpecRange == RangeInit /\ [][RangeNext]_vars

\* The two drivers that resolve channel ids: main() of analyzer.py and
\* process_step1.
Step1Init == RangeInit /\ pc = "s1_start"
MainOrStep1Init == MainInit \/ Step1Init
MainOrStep1Next ==
    \/ Next
    \/ Step1Empty
    \/ Step1Start
    \/ Step1LoopEnds
    \/ Step1RowSkipped
    \/ Step1RowExisting
    \/ Step1RowExtracted
    \/ Step1RowFailed
    \/ Step1Save

SpecMainOrStep1 == MainOrStep1Init /\ [][MainOrStep1Next]_vars

(* Properties of the drivers *)

InStep1 == total_rows > 0
InMain == ~InStep1

\* main() did nothing for any row: no row read, no manager call, no count
MainDidNothing ==
    /\ pc \in {"start", "done"}
    /\ row_data = NoRow
    /\ op.name = "load"
    /\ success_count = 0 /\ fail_count = 0
    /\ \A n \in DOMAIN debited : debited[n] = 0

\* process_step1 did nothing for any row
Step1DidNothing ==
    /\ processed = <<>>
    /\ channel_ids_data = <<>>
    /\ op.name \notin {"url", "api", "web", "none", "saved"}

ResolutionPcs == {"sheet_handle", "sheet_handle_call", "url_handle", "url_handle_call",
                  "scrape", "ytdlp"}
CollectionPcs == {"collect", "channels", "playlist", "activities", "shorts_videos",
                  "merge", "videos"}

\* process_step1 has just handled a row whose channel_id cell (column X) is filled
Step1SawResolvedRow ==
    /\ InStep1
    /\ op.name \in {"skipped", "existing", "url", "api", "web", "none"}
    /\ StartsWithUC(row_data[S1_COL_CHANNEL_ID])

\* main() is at a row whose channel_id cell is filled
MainAtResolvedRow ==
    /\ InMain
    /\ pc \in ResolutionPcs \cup CollectionPcs
    /\ row_data.channel_id # ""

\* C18: a row that already carries its channel_id is skipped: nothing is
\* resolved, called or written for it.
C18_SkipIfPresent ==
    /\ Step1SawResolvedRow =>
          /\ op.name = "existing"
          /\ \A i \in 1 .. Len(channel_ids_data) : channel_ids_data[i] # op.row
    /\ ~MainAtResolvedRow

(* Properties of the row range, under SpecRange *)

\* the range a value of RANGE stands for: none configured, "start-end", or
\* one row; other values stand for none
ConfiguredRanges ==
    LET given == StripSeq(range_input)
        numbers == RangeNumbers \cup {10}
    IN IF given = <<>> THEN {Rows(2, total_rows)}
       ELSE {Rows(a, b) : a \in numbers, b \in numbers} \cap
            ({Rows(a, a) : a \in {n \in numbers : given = Chars(n)}}
             \cup {r \in {Rows(a, b) : a \in numbers, b \in numbers} :
                       given = Chars(r.start_row) \o <<"-">> \o Chars(r.end_row)})

\* the rows first .. last that the data tab has, in ascending order
SheetRowsIn(first, last) ==
    LET upto == Min(last, total_rows)
    IN [i \in 1 .. (IF upto >= first THEN upto - first + 1 ELSE 0) |-> first + i - 1]

RunOver == pc = "done" /\ op.name \in {"end", "saved"}

\* C19: with no range the rows 2 .. last are processed, with "start-end" the
\* rows start .. end, with one value that row.
C19_RowRange ==
    RunOver => \A r \in ConfiguredRanges : processed = SheetRowsIn(r.start_row, r.end_row)


-----------------------------------------------------------------------------
(* The top-N view sums: get_channel_data_hybrid (analyzer.py) and          *)
(* get_channel_data (step2), from the answer of the videos listing on.     *)
(* The listing answers in the order of the ids asked for and leaves out a  *)
(* video it cannot show; viewCount is a non-negative integer.              *)

ViewCounts == 0 .. MaxViews

\* the counts along a listing: low up to one upload, high after it
CountAt(i, at, low, high) == IF i <= at THEN low ELSE high

\* the merged lists: uploads 1 .. n, and the same with the newest named twice
MergedLists ==
    {Window(0, n) : n \in 0 .. MAX_VIDEO_IDS}
    \cup {Append(Window(0, n), 1) : n \in 1 .. MaxSmall}

\* the items answered for ids, the upload missing left out
ResponseItems(ids, missing, at, low, high) ==
    LET shown == SelectSeq(dict_fromkeys(ids), LAMBDA v : v # missing)
    IN [i \in 1 .. Len(shown) |->
           [id |-> shown[i], viewCount |-> CountAt(shown[i], at, low, high)]]

RECURSIVE sum_upto(_, _)
sum_upto(s, n) == IF n = 0 THEN 0 ELSE sum_upto(s, n - 1) + s[n]

sum(s) == sum_upto(s, Len(s))

\* analyzer.py: view_map[video_id][0], -1 where video_id is not a key
view_map(items, video_id) ==
    LET found == {i \in 1 .. Len(items) : items[i].id = video_id}
    IN IF found = {} THEN -1
       ELSE items[CHOOSE i \in found : \A j \in found : j <= i].viewCount

\* analyzer.py: views_list
hybrid_views_list(ids, items) ==
    LET counts == [i \in 1 .. Len(ids) |-> view_map(items, ids[i])]
    IN SelectSeq(counts, LAMBDA c : c # -1)

\* step2: [v['views'] for v in view_data.values()]: a dict keeps its keys in
\* the order they were first set, each with the value it was last given
step2_views_list(items) ==
    LET counts == [i \in 1 .. Len(items) |->
                      IF \A j \in 1 .. i - 1 : items[j].id # items[i].id
                      THEN view_map(items, items[i].id)
                      ELSE -1]
    IN SelectSeq(counts, LAMBDA c : c # -1)

top_sums_swapped(list) ==
    [views_5 |-> sum(Slice(list, 0, 10)),
     views_10 |-> sum(Slice(list, 0, 5)),
     views_20 |-> sum(Slice(list, 0, 20)),
     views_30 |-> sum(Slice(list, 0, 30))]

\* result['views_5'] .. result['views_30']
top_sums(list) ==
    [views_5 |-> sum(Slice(list, 0, 5)),
     views_10 |-> sum(Slice(list, 0, 10)),
     views_20 |-> sum(Slice(list, 0, 20)),
     views_30 |-> sum(Slice(list, 0, 30))]

ViewsInit ==
    /\ LoadedFrom(<<>>)
    /\ RetryIdle
    /\ rss_videos = <<>>
    /\ bulk_items = <<>>
    /\ is_shorts_only = FALSE
    /\ api_videos = <<>>
    /\ all_video_ids \in MergedLists
    /\ merge_pc = "videos"
    /\ \E missing \in 0 .. Len(all_video_ids), at \in 1 .. MAX_VIDEO_IDS,
          low \in ViewCounts, high \in ViewCounts :
          /\ at <= Len(all_video_ids) \/ at = 1
          /\ videos_response = ResponseItems(all_video_ids, missing, at, low, high)
    /\ views_list = <<>>
    /\ views = NoViews
    /\ DaysIdle
    /\ ScenarioIdle
    /\ MainIdle

ViewsQuiet ==
    UNCHANGED <<rss_videos, bulk_items, is_shorts_only, api_videos, all_video_ids,
                videos_response, now, channel_created, day_lists, result, shorts_feed,
                sinkVars,
                ledgerVars, callVars, retryVars, scenario, mainVars>>

ViewsHybrid ==
    /\ merge_pc = "videos"
    /\ views_list' = hybrid_views_list(all_video_ids, videos_response)
    /\ views' = top_sums(views_list')
    /\ merge_pc' = "hybrid_views"
    /\ ViewsQuiet

\* step2 asks for a list that names no video twice
ViewsStep2 ==
    /\ merge_pc = "videos"
    /\ Cardinality(Elems(all_video_ids)) = Len(all_video_ids)
    /\ views_list' = step2_views_list(videos_response)
    /\ views' = top_sums(views_list')
    /\ merge_pc' = "step2_views"
    /\ ViewsQuiet

ViewsNext == ViewsHybrid \/ ViewsStep2

SpecViews == ViewsInit /\ [][ViewsNext]_vars

(* Properties of the top-N sums, under SpecViews *)

Summed == merge_pc \in {"hybrid_views", "step2_views"}

\* C20: the top-N sums grow with N: views_5 <= views_10 <= views_20 <= views_30.
C20_WindowMonotonicity ==
    Summed =>
        /\ views.views_5 <= views.views_10
        /\ views.views_10 <= views.views_20
        /\ views.views_20 <= views.views_30

C20_Witness ==
    /\ Summed
    /\ Len(views_list) < Len(all_video_ids)
    /\ Len(views_list) > 20
    /\ views.views_5 < views.views_10
    /\ views.views_10 < views.views_20
    /\ views.views_20 < views.views_30


-----------------------------------------------------------------------------
(* The day windows and the upload dates: get_channel_data_hybrid           *)
(* (analyzer.py) and get_channel_data (step2), from the answer of the      *)
(* videos listing on.  Time is counted in ticks, TicksPerDay to a day; a   *)
(* published_at of 0 is None, a date of 0 is ''.                           *)

\* the instant of the collection
Now == 17 * TicksPerDay + 1

\* how long before now a video was published: an instant later, the edges
\* of the 5, 10 and 15 day windows, and the same hour
PublishAges ==
    {-1, 0, 6 * TicksPerDay - 1, 6 * TicksPerDay, 11 * TicksPerDay - 1, 11 * TicksPerDay,
     16 * TicksPerDay - 1, 16 * TicksPerDay}

DayViewCounts == {0, 3}
CreatedTimes == {0, 3 * TicksPerDay + 1}

\* what the listing answers for one id: nothing, or the statistics and the
\* snippet of the video, publishedAt read or not
DayAnswers ==
    {[shown |-> FALSE, viewCount |-> 0, published_at |-> 0]}
    \cup {[shown |-> TRUE, viewCount |-> v, published_at |-> t] :
             v \in DayViewCounts, t \in {0} \cup {Now - a : a \in PublishAges}}

DayItems(answers) ==
    LET items == [i \in 1 .. Len(answers) |->
                     [id |-> i, viewCount |-> answers[i].viewCount,
                      published_at |-> answers[i].published_at, shown |-> answers[i].shown]]
    IN SelectSeq(items, LAMBDA it : it.shown)

\* timedelta.days
days(delta) == delta \div TicksPerDay

\* strftime('%Y-%m-%d') of an instant, [:10] of its ISO string
date_of(t) == IF t = 0 THEN 0 ELSE t \div TicksPerDay

in_window_swapped(days_ago, limit) == days_ago >= limit

\* if days_ago <= 5 / 10 / 15
in_window(days_ago, limit) == days_ago <= limit

\* the item of video_id, when it is in the answer
ItemOf(items, video_id) ==
    items[CHOOSE i \in 1 .. Len(items) : items[i].id = video_id]
Shown(items, video_id) == \E i \in 1 .. Len(items) : items[i].id = video_id

\* analyzer.py: views_5d_list, views_10d_list, views_15d_list
hybrid_day_list(ids, items, at, limit) ==
    LET counts == [i \in 1 .. Len(ids) |->
                      IF /\ Shown(items, ids[i])
                         /\ ItemOf(items, ids[i]).published_at # 0
                         /\ in_window(days(at - ItemOf(items, ids[i]).published_at), limit)
                      THEN ItemOf(items, ids[i]).viewCount
                      ELSE -1]
    IN SelectSeq(counts, LAMBDA c : c # -1)

\* analyzer.py: dates
hybrid_dates(ids, items) ==
    LET stamps == [i \in 1 .. Len(ids) |->
                      IF Shown(items, ids[i]) THEN ItemOf(items, ids[i]).published_at ELSE 0]
    IN SelectSeq(stamps, LAMBDA t : t # 0)

\* step2: views_5d, views_10d, views_15d
step2_day_list(items, at, limit) ==
    LET counts == [i \in 1 .. Len(items) |->
                      IF /\ items[i].published_at # 0
                         /\ in_window(days(at - items[i].published_at), limit)
                      THEN items[i].viewCount
                      ELSE -1]
    IN SelectSeq(counts, LAMBDA c : c # -1)

\* step2: dates
step2_dates(items) ==
    SelectSeq([i \in 1 .. Len(items) |-> items[i].published_at], LAMBDA t : t # 0)

max(s) == CHOOSE x \in Elems(s) : \A y \in Elems(s) : y <= x
min(s) == CHOOSE x \in Elems(s) : \A y \in Elems(s) : x <= y

day_sums(lists) ==
    [ResultDefaults EXCEPT !.views_5d = sum(lists.d5), !.views_10d = sum(lists.d10),
                           !.views_15d = sum(lists.d15), !.count_5d = Len(lists.d5),
                           !.count_10d = Len(lists.d10)]

hybrid_uploads_unset(res, dates, created_date) ==
    IF dates # <<>>
    THEN [res EXCEPT !.latest_upload = date_of(max(dates)),
                     !.first_upload = date_of(min(dates)),
                     !.operation_days = days(max(dates) - min(dates))]
    ELSE res

\* analyzer.py: the dates of the result
hybrid_uploads(res, dates, created_date) ==
    IF dates # <<>>
    THEN [res EXCEPT !.latest_upload = date_of(max(dates)),
                     !.first_upload = date_of(min(dates)),
                     !.operation_days = days(max(dates) - min(dates))]
    ELSE IF created_date # 0
    THEN [res EXCEPT !.first_upload = created_date, !.latest_upload = created_date,
                     !.operation_days = 0]
    ELSE res

\* step2: the dates of the result
step2_uploads(res, dates, created, at) ==
    IF dates # <<>>
    THEN [res EXCEPT !.latest_upload = date_of(max(dates)),
                     !.first_upload = date_of(min(dates)),
                     !.operation_days = days(at - min(dates))]
    ELSE IF created # 0
    THEN [res EXCEPT !.first_upload = date_of(created),
                     !.operation_days = days(at - created)]
    ELSE res

DaysInit ==
    /\ LoadedFrom(<<>>)
    /\ RetryIdle
    /\ rss_videos = <<>>
    /\ bulk_items = <<>>
    /\ is_shorts_only = FALSE
    /\ api_videos = <<>>
    /\ \E n \in 0 .. MaxDayItems :
          /\ all_video_ids = Window(0, n)
          /\ \E answers \in [1 .. n -> DayAnswers] : videos_response = DayItems(answers)
    /\ merge_pc = "dates"
    /\ views_list = <<>>
    /\ views = NoViews
    /\ ShortsIdle
    /\ SinkIdle
    /\ now = Now
    /\ channel_created \in CreatedTimes
    /\ day_lists = NoDayLists
    /\ result = ResultDefaults
    /\ ScenarioIdle
    /\ MainIdle

DaysQuiet ==
    UNCHANGED <<rss_videos, bulk_items, is_shorts_only, api_videos, all_video_ids,
                videos_response, views_list, views, now, channel_created, shorts_feed,
                sinkVars, ledgerVars, callVars, retryVars, scenario, mainVars>>

\* analyzer.py: no video was collected, the result is returned as it is
DaysHybridNoVideos ==
    /\ merge_pc = "dates"
    /\ all_video_ids = <<>>
    /\ result' = hybrid_uploads(result, <<>>, date_of(channel_created))
    /\ merge_pc' = "hybrid_days"
    /\ UNCHANGED day_lists
    /\ DaysQuiet

DaysHybrid ==
    /\ merge_pc = "dates"
    /\ all_video_ids # <<>>
    /\ day_lists' = [d5 |-> hybrid_day_list(all_video_ids, videos_response, now, 5),
                     d10 |-> hybrid_day_list(all_video_ids, videos_response, now, 10),
                     d15 |-> hybrid_day_list(all_video_ids, videos_response, now, 15)]
    /\ result' = hybrid_uploads(day_sums(day_lists'),
                                hybrid_dates(all_video_ids, videos_response),
                                date_of(channel_created))
    /\ merge_pc' = "hybrid_days"
    /\ DaysQuiet

\* step2: no video was collected, the result is returned as it is initialised
DaysStep2NoVideos ==
    /\ merge_pc = "dates"
    /\ all_video_ids = <<>>
    /\ merge_pc' = "step2_days"
    /\ UNCHANGED <<day_lists, result>>
    /\ DaysQuiet

DaysStep2 ==
    /\ merge_pc = "dates"
    /\ all_video_ids # <<>>
    /\ day_lists' = [d5 |-> step2_day_list(videos_response, now, 5),
                     d10 |-> step2_day_list(videos_response, now, 10),
                     d15 |-> step2_day_list(videos_response, now, 15)]
    /\ result' = step2_uploads(day_sums(day_lists'), step2_dates(videos_response),
                               channel_created, now)
    /\ merge_pc' = "step2_days"
    /\ DaysQuiet

DaysNext == DaysHybridNoVideos \/ DaysHybrid \/ DaysStep2NoVideos \/ DaysStep2

SpecDays == DaysInit /\ [][DaysNext]_vars

(* Properties of the day windows, under SpecDays *)

Dated == merge_pc \in {"hybrid_days", "step2_days"}

\* the answered videos that have a timestamp
DatedItems == {i \in 1 .. Len(videos_response) : videos_response[i].published_at # 0}
DaysAgo(i) == days(now - videos_response[i].published_at)
Within(limit) == {i \in DatedItems : DaysAgo(i) <= limit}

RECURSIVE ViewsOf(_)
ViewsOf(set) ==
    IF set = {} THEN 0
    ELSE LET i == CHOOSE j \in set : TRUE
         IN videos_response[i].viewCount + ViewsOf(set \ {i})

\* C21: the 5, 10 and 15 day buckets hold the dated items at most 5, 10 and
\* 15 days old, so their counts and their view sums grow with the window;
\* an item without a timestamp is in no bucket.
C21_DayWindowsCumulative ==
    Dated =>
        /\ Len(day_lists.d5) = Cardinality(Within(5))
        /\ Len(day_lists.d10) = Cardinality(Within(10))
        /\ Len(day_lists.d15) = Cardinality(Within(15))
        /\ result.count_5d = Len(day_lists.d5)
        /\ result.count_10d = Len(day_lists.d10)
        /\ result.views_5d = ViewsOf(Within(5))
        /\ result.views_10d = ViewsOf(Within(10))
        /\ result.views_15d = ViewsOf(Within(15))
        /\ result.count_5d <= result.count_10d
        /\ result.count_10d <= Len(day_lists.d15)
        /\ result.views_5d <= result.views_10d
        /\ result.views_10d <= result.views_15d

C21_Witness ==
    /\ Dated
    /\ 0 < result.count_5d
    /\ result.count_5d < result.count_10d
    /\ result.count_10d < Len(day_lists.d15)
    /\ result.views_5d < result.views_10d
    /\ result.views_10d < result.views_15d


DatedStamps == {videos_response[i].published_at : i \in DatedItems}
Earliest == CHOOSE t \in DatedStamps : \A u \in DatedStamps : t <= u
Latest == CHOOSE t \in DatedStamps : \A u \in DatedStamps : u <= t

\* C22: operation_days is never negative, is the whole days between the
\* earliest and the latest dated item, and is 0 when one item has a timestamp.
C22_SpanNonNegative ==
    Dated =>
        /\ result.operation_days >= 0
        /\ DatedItems # {} => result.operation_days = days(Latest - Earliest)
        /\ Cardinality(DatedItems) = 1 => result.operation_days = 0


HybridDated == merge_pc = "hybrid_days"

\* C26: when no item of the merged list has a timestamp, the empty list
\* included, get_channel_data_hybrid returns a record whose first and last
\* upload are the creation date of the channel and whose operation_days is 0,
\* with every day window 0.
C26_NoTimestampFallback ==
    (HybridDated /\ hybrid_dates(all_video_ids, videos_response) = <<>>) =>
        /\ result.first_upload = date_of(channel_created)
        /\ result.latest_upload = date_of(channel_created)
        /\ result.operation_days = 0
        /\ result.views_5d = 0 /\ result.views_10d = 0 /\ result.views_15d = 0
        /\ result.count_5d = 0 /\ result.count_10d = 0

C26_Witness ==
    /\ HybridDated
    /\ all_video_ids = <<>>
    /\ channel_created # 0
    /\ result.first_upload = date_of(channel_created)
    /\ result.latest_upload = result.first_upload


(* Properties of the top-N sums in the order of the merged list, under SpecViews *)

\* the view count of the video at position i of the merged list, 0 when the
\* lookup does not have it
CountAtPosition(i) ==
    LET count == view_map(videos_response, all_video_ids[i])
    IN IF count = -1 THEN 0 ELSE count

FirstPositions(n) ==
    sum([i \in 1 .. Min(n, Len(all_video_ids)) |-> CountAtPosition(i)])

\* C23: views_N is the sum over the first N positions of the merged list of
\* the view count of the item, 0 for an item the lookup does not have.
C23_TopNMergedOrder ==
    Summed =>
        /\ views.views_5 = FirstPositions(5)
        /\ views.views_10 = FirstPositions(10)
        /\ views.views_20 = FirstPositions(20)
        /\ views.views_30 = FirstPositions(30)


(* Properties of the waits of retry_with_backoff, under SpecRetry *)

\* C24: a wait happens only between two attempts: there are at most
\* MAX_RETRIES - 1 waits, and a call that is over has waited less often than
\* it has attempted.
C24_WaitOnlyBetweenAttempts ==
    /\ Len(sleeps) <= MAX_RETRIES - 1
    /\ RetryDone => Len(sleeps) < Len(func_calls)


-----------------------------------------------------------------------------
(* The bulk listing of the uploads playlist and what follows HTTP 404:      *)
(* get_channel_data_hybrid with get_shorts_channel_data (analyzer.py), and *)
(* get_channel_data (step2).  In analyzer.py the listing is a call wrapped *)
(* by retry_with_backoff; step2 calls it once, unwrapped.                  *)

SHORTS_MAX_SECONDS == 60

\* an activity: the upload of a video of some duration, or no upload (0)
Activities ==
    {[videoId |-> 0, seconds |-> 0]}
    \cup {[videoId |-> 1, seconds |-> SHORTS_MAX_SECONDS - 1],
          [videoId |-> 2, seconds |-> SHORTS_MAX_SECONDS],
          [videoId |-> 3, seconds |-> SHORTS_MAX_SECONDS + 1]}

ShortsFeeds ==
    {[activities_ok |-> FALSE, videos_ok |-> TRUE, items |-> <<>>]}
    \cup {[activities_ok |-> TRUE, videos_ok |-> v, items |-> a] :
             v \in BOOLEAN, a \in SeqsUpTo(Activities, MaxSmall)}

PlaylistListings == {Window(0, n) : n \in {0, API_SLICE_FROM + 1, PLAYLIST_MAX_RESULTS}}

\* get_shorts_channel_data: the uploads of the activities, the first 30 of
\* them, those of at most 60 seconds; [] on any exception
get_shorts_channel_data(feed) ==
    LET uploads == SelectSeq(feed.items, LAMBDA a : a.videoId # 0)
        asked == Slice(uploads, 0, 30)
        shorts == SelectSeq(asked, LAMBDA a : a.seconds <= SHORTS_MAX_SECONDS)
    IN IF ~feed.activities_ok \/ asked = <<>> \/ ~feed.videos_ok THEN <<>>
       ELSE [i \in 1 .. Len(shorts) |-> shorts[i].videoId]

BulkInit ==
    /\ LoadedFrom(<<>>)
    /\ merge_pc \in {"hybrid_playlist", "step2_playlist"}
    /\ retry_pc = IF merge_pc = "hybrid_playlist" THEN "call" ELSE "idle"
    /\ attempt = 0
    /\ func_calls = <<>>
    /\ sleeps = <<>>
    /\ retry_result = [kind |-> "none", value |-> "", err |-> ""]
    /\ rss_videos = <<>>
    /\ bulk_items \in PlaylistListings
    /\ is_shorts_only = FALSE
    /\ api_videos = <<>>
    /\ all_video_ids = <<>>
    /\ videos_response = <<>>
    /\ views_list = <<>>
    /\ views = NoViews
    /\ shorts_feed \in ShortsFeeds
    /\ SinkIdle
    /\ now = 0
    /\ channel_created = 0
    /\ day_lists = NoDayLists
    /\ result = ResultDefaults
    /\ ScenarioIdle
    /\ MainIdle

BulkQuiet ==
    UNCHANGED <<rss_videos, bulk_items, all_video_ids, viewsVars,
                ledgerVars, callVars, scenario, mainVars>>

LastCall == func_calls[Len(func_calls)]
NotFound(o) == o.kind = "http" /\ o.status = 404

\* analyzer.py: call_playlist() returned
HybridPlaylistListed ==
    /\ merge_pc = "hybrid_playlist"
    /\ retry_pc = "done"
    /\ retry_result.kind = "return"
    /\ api_videos' = hybrid_api_videos(bulk_items, FALSE)
    /\ merge_pc' = "hybrid_bulk"
    /\ UNCHANGED <<is_shorts_only, retryVars>>
    /\ BulkQuiet

\* analyzer.py: call_playlist() raised HttpError 404
HybridPlaylistNotFound ==
    /\ merge_pc = "hybrid_playlist"
    /\ retry_pc = "done"
    /\ retry_result = Raised("http")
    /\ NotFound(LastCall)
    /\ is_shorts_only' = TRUE
    /\ api_videos' = hybrid_api_videos(get_shorts_channel_data(shorts_feed), TRUE)
    /\ merge_pc' = "hybrid_bulk"
    /\ UNCHANGED retryVars
    /\ BulkQuiet

\* analyzer.py: call_playlist() raised anything else: get_channel_data_hybrid
\* returns None
HybridPlaylistRaised ==
    /\ merge_pc = "hybrid_playlist"
    /\ retry_pc = "done"
    /\ retry_result.kind = "raise"
    /\ ~(retry_result = Raised("http") /\ NotFound(LastCall))
    /\ merge_pc' = "hybrid_failed"
    /\ UNCHANGED <<is_shorts_only, api_videos, retryVars>>
    /\ BulkQuiet

\* step2: playlistItems().list(...).execute(), called once
Step2Playlist ==
    /\ merge_pc = "step2_playlist"
    /\ \E o \in FuncOutcomes :
          /\ func_calls' = <<o>>
          /\ IF o.kind = "ok" \/ NotFound(o)
             THEN /\ api_videos' = step2_api_videos(bulk_items, NotFound(o))
                  /\ merge_pc' = "step2_bulk"
             ELSE /\ UNCHANGED api_videos
                  /\ merge_pc' = "step2_failed"
    /\ UNCHANGED <<is_shorts_only, retry_pc, attempt, sleeps, retry_result>>
    /\ BulkQuiet

BulkNext ==
    \/ RetryNext
    \/ HybridPlaylistListed
    \/ HybridPlaylistNotFound
    \/ HybridPlaylistRaised
    \/ Step2Playlist

SpecBulk == BulkInit /\ [][BulkNext]_vars

(* Properties of the bulk listing, under SpecBulk *)

BulkOver == merge_pc \in {"hybrid_bulk", "hybrid_failed", "step2_bulk", "step2_failed"}
BulkFailed == merge_pc \in {"hybrid_failed", "step2_failed"}

\* C25: when the bulk listing answers HTTP 404 the call is not repeated, the
\* entity does not fail and its bulk items are those of the alternate
\* strategy, the uploads of the activity log of at most 60 seconds; any
\* other HTTP error of the listing fails the entity.
C25_NotFoundIsNormal ==
    /\ \A i \in 1 .. Len(func_calls) - 1 : ~NotFound(func_calls[i])
    /\ BulkOver =>
          /\ NotFound(LastCall) =>
                /\ ~BulkFailed
                /\ api_videos = get_shorts_channel_data(shorts_feed)
          /\ (LastCall.kind = "http" /\ ~NotFound(LastCall)) => BulkFailed


-----------------------------------------------------------------------------
(* The category of the record: get_channel_data_hybrid with                *)
(* get_category_name (analyzer.py), and get_channel_data (step2), from the *)
(* answer of the videos listing on.  "uncategorized" stands for the       *)
(* default of the source, "music" and "game" for the names of the codes    *)
(* 10 and 20.                                                              *)

CATEGORY_MAP == [code \in {"10", "20"} |-> IF code = "10" THEN "music" ELSE "game"]

\* get_category_name
get_category_name(category_id) ==
    IF category_id = "" THEN "uncategorized"
    ELSE IF category_id \in DOMAIN CATEGORY_MAP THEN CATEGORY_MAP[category_id]
    ELSE "uncategorized"

\* what the listing answers for one id: nothing, an item without a snippet,
\* or an item whose snippet has no categoryId, an unknown code or a known one
CategoryAnswers ==
    {[shown |-> FALSE, snippet |-> FALSE, categoryId |-> ""],
     [shown |-> TRUE, snippet |-> FALSE, categoryId |-> ""]}
    \cup {[shown |-> TRUE, snippet |-> TRUE, categoryId |-> c] : c \in {"", "99", "10", "20"}}

CategoryItems(answers) ==
    LET items == [i \in 1 .. Len(answers) |->
                     [id |-> i, shown |-> answers[i].shown, snippet |-> answers[i].snippet,
                      categoryId |-> answers[i].categoryId]]
    IN SelectSeq(items, LAMBDA it : it.shown)

\* a variant that takes the first item whose code resolves
first_resolved_category(res, items) ==
    LET known == {i \in 1 .. Len(items) :
                     items[i].snippet /\ items[i].categoryId \in DOMAIN CATEGORY_MAP}
    IN IF known = {} THEN res
       ELSE [res EXCEPT !.yt_category =
                CATEGORY_MAP[items[CHOOSE i \in known : \A j \in known : i <= j].categoryId]]

\* result['yt_category'] from videos_response['items'][0]; an item without a
\* snippet raises, and the except leaves the result as it is
first_item_category(res, items) ==
    IF items = <<>> \/ ~items[1].snippet THEN res
    ELSE [res EXCEPT !.yt_category = get_category_name(items[1].categoryId)]

CategoryInit ==
    /\ LoadedFrom(<<>>)
    /\ RetryIdle
    /\ rss_videos = <<>>
    /\ bulk_items = <<>>
    /\ is_shorts_only = FALSE
    /\ api_videos = <<>>
    /\ \E n \in 1 .. MaxDayItems :
          /\ all_video_ids = Window(0, n)
          /\ \E answers \in [1 .. n -> CategoryAnswers] :
                videos_response = CategoryItems(answers)
    /\ merge_pc = "category"
    /\ views_list = <<>>
    /\ views = NoViews
    /\ DaysIdle
    /\ ScenarioIdle
    /\ MainIdle

CategoryQuiet ==
    UNCHANGED <<rss_videos, bulk_items, is_shorts_only, api_videos, all_video_ids,
                videos_response, views_list, views, now, channel_created, day_lists,
                shorts_feed, sinkVars, ledgerVars, callVars, retryVars, scenario, mainVars>>

CategoryHybrid ==
    /\ merge_pc = "category"
    /\ result' = first_item_category(result, videos_response)
    /\ merge_pc' = "hybrid_category"
    /\ CategoryQuiet

CategoryStep2 ==
    /\ merge_pc = "category"
    /\ result' = first_item_category(result, videos_response)
    /\ merge_pc' = "step2_category"
    /\ CategoryQuiet

CategoryNext == CategoryHybrid \/ CategoryStep2

SpecCategory == CategoryInit /\ [][CategoryNext]_vars

(* Properties of the category, under SpecCategory *)

Categorised == merge_pc \in {"hybrid_category", "step2_category"}

\* the positions of the answer whose category code is in the category map
Resolvable ==
    {i \in 1 .. Len(videos_response) :
        videos_response[i].snippet /\ videos_response[i].categoryId \in DOMAIN CATEGORY_MAP}

\* C27 as stated: the category is that of the first item, in the order of
\* the merged list, whose code resolves, and the default when none resolves.
C27_FirstResolvableCategory ==
    Categorised =>
        result.yt_category =
            IF Resolvable = {} THEN "uncategorized"
            ELSE CATEGORY_MAP[videos_response[
                     CHOOSE i \in Resolvable : \A j \in Resolvable : i <= j].categoryId]

\* C27, amended: the category is that of the first answered item when its
\* code resolves, and the default otherwise.
C27_FirstItemCategory ==
    Categorised =>
        result.yt_category =
            IF 1 \in Resolvable THEN CATEGORY_MAP[videos_response[1].categoryId]
            ELSE "uncategorized"

C27_Witness ==
    /\ Categorised
    /\ Len(videos_response) = MaxDayItems
    /\ 1 \notin Resolvable
    /\ 2 \in Resolvable
    /\ result.yt_category = "uncategorized"


-----------------------------------------------------------------------------
(* The cells written for a row: preserve_manual_columns_batch and          *)
(* build_cell_list, as main() calls them, and the cell get_channel_data_   *)
(* hybrid writes itself.  A value is a record: an empty string, the        *)
(* number 0, the value the sheet had at a row and column when it was read, *)
(* or a value computed for a column.                                       *)

COL_URL == 2
COL_CATEGORY_1 == 5
COL_CATEGORY_2 == 6
COL_MEMO == 7
COL_VIDEO_COUNT == 9
COL_TOTAL_VIEWS == 10
COL_KEYWORD == 18
COL_NOTE == 19
COL_TEMPLATE == 21
COL_CHANNEL_ID == 24
COL_VIDEO_LINKS == <<29, 30, 31, 32, 33>>

MANUAL_INPUT_COLUMNS ==
    <<COL_CATEGORY_1, COL_CATEGORY_2, COL_MEMO, COL_KEYWORD, COL_NOTE, COL_TEMPLATE>>

\* the columns of columns_data, in its order
ColumnsData ==
    <<1, COL_URL, 3, 4, 8, COL_VIDEO_COUNT, COL_TOTAL_VIEWS, 11, 12, 13, 14, 15, 16, 17,
      20, 22, 23, COL_CHANNEL_ID, 25, 26, 27, 28>>

\* the columns whose value in the result is a number
NumberColumns == {8, COL_VIDEO_COUNT, COL_TOTAL_VIEWS, 14, 15, 16, 17, 20, 22, 23, 25, 26, 27}

Empty == [kind |-> "empty", row |-> 0, col |-> 0]
Zero == [kind |-> "zero", row |-> 0, col |-> 0]
SheetValue(r, c) == [kind |-> "sheet", row |-> r, col |-> c]
Computed(c) == [kind |-> "computed", row |-> 0, col |-> c]

\* Python truth of a value
Truthy(v) == v.kind \in {"sheet", "computed"}

\* a row of the snapshot: len cells, those of filled with a value
SheetRow(r, len, filled) ==
    [c \in 1 .. len |-> IF c \in filled THEN SheetValue(r, c) ELSE Empty]

RowLengths == {3, COL_KEYWORD, 33}
ManualFillings ==
    {{}, Elems(MANUAL_INPUT_COLUMNS)} \cup {{c} : c \in Elems(MANUAL_INPUT_COLUMNS)}
ComputedFillings ==
    {{1, COL_URL, 3}, {1, COL_URL, 3, COL_VIDEO_COUNT, COL_TOTAL_VIEWS, COL_CHANNEL_ID}}

\* the snapshot: the header and two data rows, one of them filled throughout
Snapshots ==
    LET full(r) == SheetRow(r, 33, 1 .. 33)
        header == SheetRow(1, 33, 1 .. 33)
    IN UNION {{<<header, SheetRow(2, len, m \cup f), full(3)>>,
               <<header, full(2), SheetRow(3, len, m \cup f)>>} :
                 len \in RowLengths, m \in ManualFillings, f \in ComputedFillings}

\* what get_channel_data_hybrid returns: every field collected, or the
\* fields as they are initialised next to the channel_id and the category
DataDicts ==
    {[c \in 1 .. 33 |-> Computed(c)],
     [c \in 1 .. 33 |-> IF c \in {COL_CHANNEL_ID, 13, 28} THEN Computed(c)
                         ELSE IF c \in NumberColumns THEN Zero ELSE Empty]}

gspread_Cell(r, c, v) == [row |-> r, col |-> c, value |-> v]

preserve_manual_columns_next(sheet, row) ==
    [c \in Elems(MANUAL_INPUT_COLUMNS) |->
        IF row + 1 > Len(sheet) THEN Empty
        ELSE IF Len(sheet[row + 1]) >= c THEN sheet[row + 1][c] ELSE Empty]

\* preserve_manual_columns_batch: row_idx = row_num - 1 of Python is the
\* row_num-th row here
preserve_manual_columns_batch(sheet, row) ==
    [c \in Elems(MANUAL_INPUT_COLUMNS) |->
        IF row > Len(sheet) THEN Empty
        ELSE IF Len(sheet[row]) >= c THEN sheet[row][c] ELSE Empty]

\* build_cell_list: the value of columns_data for a column
ColumnValue(c, data, row) ==
    LET existing == IF Len(row) >= c THEN row[c] ELSE Empty
    IN IF c = COL_URL THEN existing
       ELSE IF c \in {COL_VIDEO_COUNT, COL_TOTAL_VIEWS} /\ Truthy(existing) THEN existing
       ELSE data[c]

\* build_cell_list
build_cell_list(row, data, manual, row_cells) ==
    LET computed == SelectSeq(ColumnsData,
                              LAMBDA c : ColumnValue(c, data, row_cells) # Empty)
        links == SelectSeq(COL_VIDEO_LINKS, LAMBDA c : Truthy(data[c]))
        kept == SelectSeq(MANUAL_INPUT_COLUMNS, LAMBDA c : Truthy(manual[c]))
    IN [i \in 1 .. Len(computed) |->
           gspread_Cell(row, computed[i], ColumnValue(computed[i], data, row_cells))]
       \o [i \in 1 .. Len(links) |-> gspread_Cell(row, links[i], data[links[i]])]
       \o [i \in 1 .. Len(kept) |-> gspread_Cell(row, kept[i], manual[kept[i]])]

\* get_channel_data_hybrid: the channel_id cell it writes for a row without one
channel_id_cells(row, data, row_cells) ==
    IF Len(row_cells) >= COL_CHANNEL_ID /\ Truthy(row_cells[COL_CHANNEL_ID]) THEN <<>>
    ELSE <<gspread_Cell(row, COL_CHANNEL_ID, data[COL_CHANNEL_ID])>>

SinkInit ==
    /\ LoadedFrom(<<>>)
    /\ RetryIdle
    /\ rss_videos = <<>>
    /\ bulk_items = <<>>
    /\ is_shorts_only = FALSE
    /\ api_videos = <<>>
    /\ all_video_ids = <<>>
    /\ merge_pc = "idle"
    /\ videos_response = <<>>
    /\ views_list = <<>>
    /\ views = NoViews
    /\ ShortsIdle
    /\ now = 0
    /\ channel_created = 0
    /\ day_lists = NoDayLists
    /\ result = ResultDefaults
    /\ all_sheet_data \in Snapshots
    /\ data_dict \in DataDicts
    /\ manual_values = <<>>
    /\ cell_list = <<>>
    /\ TransferIdle
    /\ ScenarioIdle
    /\ BatchIdle
    /\ Step1Idle
    /\ pc = "row"
    /\ start_row = 2
    /\ end_row = 3
    /\ row_num \in 2 .. 3
    /\ row_data = NoRow
    /\ cur_key = ""
    /\ success_count = 0
    /\ fail_count = 0

SinkQuiet ==
    UNCHANGED <<rss_videos, bulk_items, is_shorts_only, api_videos, all_video_ids, merge_pc,
                videos_response, views_list, views, now, channel_created, day_lists,
                result, shorts_feed, ledgerVars, callVars, retryVars, scenario,
                start_row, end_row, row_num, row_data, cur_key, success_count, fail_count,
                batchVars, step1Vars, all_sheet_data, data_dict, transferVars>>

\* main(): manual_values = preserve_manual_columns_batch(all_sheet_data, row_num)
SinkPreserve ==
    /\ pc = "row"
    /\ manual_values' = preserve_manual_columns_batch(all_sheet_data, row_num)
    /\ pc' = "collect"
    /\ UNCHANGED cell_list
    /\ SinkQuiet

\* main(): get_channel_data_hybrid, then build_cell_list; the cells are
\* handed to update_cells by the function and with the batch
SinkBuild ==
    /\ pc = "collect"
    /\ cell_list' = channel_id_cells(row_num, data_dict, all_sheet_data[row_num])
                     \o build_cell_list(row_num, data_dict, manual_values,
                                        all_sheet_data[row_num])
    /\ pc' = "built"
    /\ UNCHANGED manual_values
    /\ SinkQuiet

SinkNext == SinkPreserve \/ SinkBuild

SpecSink == SinkInit /\ [][SinkNext]_vars

(* Properties of the cells, under SpecSink *)

ManualColumns == Elems(MANUAL_INPUT_COLUMNS)
ComputedColumns == Elems(ColumnsData) \cup Elems(COL_VIDEO_LINKS)

\* the value the snapshot has for a row and a column
Snapshot(r, c) ==
    IF r <= Len(all_sheet_data) /\ c <= Len(all_sheet_data[r])
    THEN all_sheet_data[r][c] ELSE Empty

\* C28: a cell written in a manual column carries the value the snapshot has
\* for that row and column; no computed value goes to a manual column, and
\* no computed column is a manual column.
C28_ManualColumnsKept ==
    /\ ComputedColumns \cap ManualColumns = {}
    /\ \A i \in 1 .. Len(cell_list) :
          /\ cell_list[i].row = row_num
          /\ cell_list[i].col \in ManualColumns =>
                cell_list[i].value = Snapshot(row_num, cell_list[i].col)
          /\ cell_list[i].value.kind \in {"computed", "zero"} =>
                cell_list[i].col \notin ManualColumns

C28_Witness ==
    /\ pc = "built"
    /\ \E i \in 1 .. Len(cell_list) :
          /\ cell_list[i].col = COL_MEMO
          /\ cell_list[i].value = SheetValue(row_num, COL_MEMO)
    /\ \E i \in 1 .. Len(cell_list) : cell_list[i].value.kind = "computed"
    /\ \A i \in 1 .. Len(cell_list) : cell_list[i].col # COL_NOTE


(* Properties of the run counters, under SpecBatch *)

\* the body of the loop runs for a row that is not skipped
RowAttempted == pc = "rows" /\ row_num <= end_row /\ op'.name # "skipped"

\* C29: a row for which collection was attempted adds one to exactly one of
\* success_count and fail_count.
C29_CountedOnce ==
    [][RowAttempted => success_count' + fail_count' = success_count + fail_count + 1]_vars


-----------------------------------------------------------------------------
(* transfer_to_data_no_cat1 (hot_to_data_transfer.py): the channels of the *)
(* hot-data tab that the data tab does not have are appended to it.  Of a   *)
(* row only the channel id matters here: a hot-data record is its channel  *)
(* id cell, a row of the data tab its channel_id cell ("" also for a row    *)
(* too short to have one), the first row being the header cell.            *)

HotIds == {"", " ", "UC1", "UC1 ", "UC2"}
DataIds == {"", "UC1", "UC1 ", "UC2"}
CidHeaders == {"channel_id ", "channel_id"}

\* str(...).strip() of a channel id cell
strip(c_id) == CASE c_id = " " -> "" [] c_id = "UC1 " -> "UC1" [] OTHER -> c_id

\* existing_cids
existing_cids(data) == {data[i] : i \in 2 .. Len(data)} \ {""}

\* a variant of the loop below without added_this_session
new_rows_unchecked(hot, existing, n) ==
    LET ids == [i \in 1 .. n |-> strip(hot[i])]
    IN SelectSeq(ids, LAMBDA c : c # "" /\ c \notin existing)

\* the loop over hot_data, its first n records: the ids of new_rows
RECURSIVE new_rows(_, _, _)
new_rows(hot, existing, n) ==
    IF n = 0 THEN <<>>
    ELSE LET before == new_rows(hot, existing, n - 1)
             c_id == strip(hot[n])
         IN IF c_id # "" /\ c_id \notin existing /\ c_id \notin Elems(before)
            THEN Append(before, c_id)
            ELSE before

TransferInit ==
    /\ LoadedFrom(<<>>)
    /\ RetryIdle
    /\ rss_videos = <<>>
    /\ bulk_items = <<>>
    /\ is_shorts_only = FALSE
    /\ api_videos = <<>>
    /\ all_video_ids = <<>>
    /\ merge_pc = "idle"
    /\ videos_response = <<>>
    /\ views_list = <<>>
    /\ views = NoViews
    /\ ShortsIdle
    /\ now = 0
    /\ channel_created = 0
    /\ day_lists = NoDayLists
    /\ result = ResultDefaults
    /\ all_sheet_data = <<>>
    /\ data_dict = <<>>
    /\ manual_values = <<>>
    /\ cell_list = <<>>
    /\ hot_data \in SeqsUpTo(HotIds, MaxHot)
    /\ \E header \in CidHeaders, rows \in SeqsUpTo(DataIds, MaxSmall) :
          data_all = <<header>> \o rows
    /\ transfer_log = <<>>
    /\ ScenarioIdle
    /\ BatchIdle
    /\ Step1Idle
    /\ pc = "transfer"
    /\ start_row = 0
    /\ end_row = 0
    /\ row_num = 0
    /\ row_data = NoRow
    /\ cur_key = ""
    /\ success_count = 0
    /\ fail_count = 0

TransferQuiet ==
    UNCHANGED <<rss_videos, bulk_items, is_shorts_only, api_videos, all_video_ids, merge_pc,
                videos_response, views_list, views, now, channel_created, day_lists,
                result, shorts_feed, all_sheet_data, data_dict, manual_values, cell_list,
                ledgerVars, callVars, retryVars, scenario,
                start_row, end_row, row_num, row_data, cur_key, success_count, fail_count,
                batchVars, step1Vars, hot_data>>

Ran(rows, how) ==
    /\ transfer_log' = Append(transfer_log, [new_rows |-> rows, ended |-> how])
    /\ pc' = IF Len(transfer_log) + 1 < MaxRuns THEN "transfer" ELSE "done"

\* data_header.index('channel_id ') raises ValueError: return
TransferNoHeader ==
    /\ pc = "transfer"
    /\ data_all[1] # "channel_id "
    /\ Ran(<<>>, "no_header")
    /\ UNCHANGED data_all
    /\ TransferQuiet

\* no new channel: nothing is appended
TransferNothing ==
    /\ pc = "transfer"
    /\ data_all[1] = "channel_id "
    /\ new_rows(hot_data, existing_cids(data_all), Len(hot_data)) = <<>>
    /\ Ran(<<>>, "nothing")
    /\ UNCHANGED data_all
    /\ TransferQuiet

\* ws_data.append_rows(new_rows)
TransferAppended ==
    /\ pc = "transfer"
    /\ data_all[1] = "channel_id "
    /\ LET rows == new_rows(hot_data, existing_cids(data_all), Len(hot_data))
       IN /\ rows # <<>>
          /\ Ran(rows, "appended")
          /\ data_all' = data_all \o rows
    /\ TransferQuiet

\* ws_data.append_rows(new_rows) raises: the sheet is as it was
TransferAppendRaised ==
    /\ pc = "transfer"
    /\ data_all[1] = "channel_id "
    /\ LET rows == new_rows(hot_data, existing_cids(data_all), Len(hot_data))
       IN /\ rows # <<>>
          /\ Ran(rows, "append_raised")
    /\ UNCHANGED data_all
    /\ TransferQuiet

TransferNext ==
    \/ TransferNoHeader
    \/ TransferNothing
    \/ TransferAppended
    \/ TransferAppendRaised

SpecTransfer == TransferInit /\ [][TransferNext]_vars

(* Properties of the transfer, under SpecTransfer *)

\* the rows of the data tab before run k: what it has now, less the rows
\* appended by run k and by the runs after it
RECURSIVE AppendedFrom(_)
AppendedFrom(k) ==
    IF k > Len(transfer_log) THEN 0
    ELSE (IF transfer_log[k].ended = "appended" THEN Len(transfer_log[k].new_rows) ELSE 0)
         + AppendedFrom(k + 1)
DataBefore(k) == SubSeq(data_all, 1, Len(data_all) - AppendedFrom(k))

\* C30: a run appends an id only if it is not empty, is not in the
\* channel_id column of the data tab and was not appended earlier in the
\* run, so the appended ids are distinct and none is in the data tab; a run
\* on the sheet a run has left, with the same hot data, appends nothing.
C30_TransferAddsOnce ==
    \A k \in 1 .. Len(transfer_log) :
        LET rows == transfer_log[k].new_rows
        IN /\ NoDuplicates(rows)
           /\ \A i \in 1 .. Len(rows) :
                 /\ rows[i] # ""
                 /\ rows[i] \notin existing_cids(DataBefore(k))
                 /\ \E j \in 1 .. Len(hot_data) : strip(hot_data[j]) = rows[i]
           /\ (k > 1 /\ transfer_log[k - 1].ended \in {"appended", "nothing"}) => rows = <<>>

C30_Witness ==
    /\ Len(transfer_log) = 2
    /\ transfer_log[1].ended = "appended"
    /\ Len(transfer_log[1].new_rows) = 2
    /\ transfer_log[2].ended = "nothing"
    /\ Len(hot_data) = MaxHot
    /\ existing_cids(DataBefore(1)) # {}

=============================================================================
